---- MODULE Spec2Model ----
(***************************************************************************)
(* A model of rasendubi/bakup: the bakpak archive stream writer            *)
(* (crates/bakpak/src/stream_writer.rs) and the content-defined chunker    *)
(* (src/chunking, crates/bakup/src/chunking).                              *)
(*                                                                         *)
(* Byte strings are kept run-length encoded (a sequence of runs            *)
(* [b |-> byte, n |-> count], no empty run, no two adjacent runs of the    *)
(* same byte), so that buffers of the program's real size (64 KiB          *)
(* segments) are ordinary values.                                          *)
(***************************************************************************)
EXTENDS Integers, Sequences, FiniteSets, TLC

(***************************************************************************)
(* Program constants.                                                      *)
(***************************************************************************)
SEGMENT_SIZE == 65536
SIGNATURE_SIZE == 64
TAG_SIZE == 32
U16_MAX == 65535
U8_MAX == 255

(***************************************************************************)
(* Bounds of the model.                                                    *)
(***************************************************************************)
\* Public calls (write / flush / finish) made on one StreamWriter.
MaxCalls == 4

\* Lengths of the buffers passed to StreamWriter::write.
BufLens == {0, 1, SEGMENT_SIZE - 1, SEGMENT_SIZE, SEGMENT_SIZE + 4464}
\* What one call of the downstream writer's write() may answer: the number
\* of bytes it is willing to accept (capped by what it is offered), or an
\* error (ErrorKind::Interrupted, or any other kind).
ERR == 0 - 1
INTR == 0 - 2
AcceptSizes == {0, 40000, SEGMENT_SIZE + SIGNATURE_SIZE + TAG_SIZE}
Responses == AcceptSizes \cup {ERR, INTR}

Min(a, b) == IF a <= b THEN a ELSE b

(***************************************************************************)
(* Run-length encoded byte strings.                                        *)
(***************************************************************************)
RECURSIVE BLen(_)
BLen(s) == IF s = <<>> THEN 0 ELSE s[1].n + BLen(Tail(s))

BRepeat(b, n) == IF n = 0 THEN <<>> ELSE <<[b |-> b, n |-> n]>>

BCat(s, t) ==
  IF s = <<>> THEN t
  ELSE IF t = <<>> THEN s
  ELSE IF s[Len(s)].b = t[1].b
       THEN SubSeq(s, 1, Len(s) - 1)
              \o <<[b |-> t[1].b, n |-> s[Len(s)].n + t[1].n]>>
              \o Tail(t)
       ELSE s \o t

RECURSIVE BTake(_, _)
BTake(s, k) ==
  IF k = 0 \/ s = <<>> THEN <<>>
  ELSE IF s[1].n <= k THEN <<s[1]>> \o BTake(Tail(s), k - s[1].n)
  ELSE <<[b |-> s[1].b, n |-> k]>>

RECURSIVE BDrop(_, _)
BDrop(s, k) ==
  IF k = 0 \/ s = <<>> THEN s
  ELSE IF s[1].n <= k THEN BDrop(Tail(s), k - s[1].n)
  ELSE <<[b |-> s[1].b, n |-> s[1].n - k]>> \o Tail(s)

\* The i-th byte (1-based) of s.
RECURSIVE BAt(_, _)
BAt(s, i) == IF i <= s[1].n THEN s[1].b ELSE BAt(Tail(s), i - s[1].n)

(***************************************************************************)
(* StreamState (stream_writer.rs).                                         *)
(***************************************************************************)
segment_capacity(seg) == SEGMENT_SIZE - BLen(seg)

\* The nonce as its 12 bytes: four zero bytes, then LE64(counter | last<<63).
\* segment_count stays far below 2^32 here, so bytes 4..7 of the counter are
\* zero and the flag is the only contribution to the top byte.
\* A nonce that leaves the last flag out.
nonceWithoutLastFlag(counter, last) ==
  <<0, 0, 0, 0>> \o [i \in 1..8 |->
      IF i <= 4 THEN (counter \div (256 ^ (i - 1))) % 256 ELSE 0]

nonce(counter, last) ==
  <<0, 0, 0, 0>> \o [i \in 1..8 |->
      IF i <= 4 THEN (counter \div (256 ^ (i - 1))) % 256
      ELSE IF i = 8 /\ last THEN 128
      ELSE 0]

\* Readers of a nonce.
NonceLast(nc) == nc[12] >= 128
NonceCounter(nc) == nc[5] + 256 * nc[6] + 65536 * nc[7] + 16777216 * nc[8]

\* pad_segment: the padded segment, or a panic. The two debug assertions
\* exist only in a build with debug assertions; to_pad = 0 overflows the
\* subtraction to_pad - 1 (a panic in a debug build, and in a release build
\* an extend past the ArrayVec's capacity, which panics as well).
pad_segment(seg, debug) ==
  LET to_pad == SEGMENT_SIZE - BLen(seg) IN
  IF to_pad = 0 THEN [panic |-> TRUE, seg |-> seg]
  ELSE IF debug /\ to_pad > U16_MAX THEN [panic |-> TRUE, seg |-> seg]
  ELSE IF to_pad <= U8_MAX
  THEN [panic |-> FALSE,
        seg |-> BCat(BCat(seg, BRepeat(0, to_pad - 1)), BRepeat(to_pad, 1))]
  ELSE LET as_u16 == to_pad % (U16_MAX + 1)
           le0 == as_u16 % 256
           le1 == as_u16 \div 256
       IN [panic |-> FALSE,
           seg |-> BCat(BCat(BCat(BCat(seg, BRepeat(0, to_pad - 3)),
                                  BRepeat(le0, 1)), BRepeat(le1, 1)),
                        BRepeat(0, 1))]

\* A sealed frame is the ciphertext of (plaintext || signature) followed by
\* the tag. The signature, the keystream and the tag are functions of the
\* keys, the nonce and the plaintext, so a frame is identified by its nonce
\* and its plaintext; its length is what the three extends add up to.
FrameLen(f) == BLen(f.plain) + SIGNATURE_SIZE + TAG_SIZE

\* A sealing that leaves segment_count where it was.
signcrypt_segmentKeepsCount(seg, count, last, debug) ==
  LET padded == IF last THEN pad_segment(seg, debug)
                ELSE [panic |-> FALSE, seg |-> seg]
  IN IF last /\ debug /\ segment_capacity(seg) = 0
       THEN [panic |-> TRUE, frame |-> <<>>, count |-> count]
     ELSE IF padded.panic
       THEN [panic |-> TRUE, frame |-> <<>>, count |-> count]
     ELSE IF debug /\ BLen(padded.seg) # SEGMENT_SIZE
       THEN [panic |-> TRUE, frame |-> <<>>, count |-> count]
     ELSE [panic |-> FALSE,
           frame |-> <<[nonce |-> nonce(count, last), plain |-> padded.seg]>>,
           count |-> count]

\* signcrypt_segment: the sealed frame and the new segment_count, or a
\* panic. The frame is 65600 bytes when it is encrypted (1025 ChaCha20
\* blocks), so the AEAD's length check never rejects it.
signcrypt_segment(seg, count, last, debug) ==
  LET padded == IF last THEN pad_segment(seg, debug)
                ELSE [panic |-> FALSE, seg |-> seg]
  IN IF last /\ debug /\ segment_capacity(seg) = 0
       THEN [panic |-> TRUE, frame |-> <<>>, count |-> count]
     ELSE IF padded.panic
       THEN [panic |-> TRUE, frame |-> <<>>, count |-> count]
     ELSE IF debug /\ BLen(padded.seg) # SEGMENT_SIZE
       THEN [panic |-> TRUE, frame |-> <<>>, count |-> count]
     ELSE [panic |-> FALSE,
           frame |-> <<[nonce |-> nonce(count, last), plain |-> padded.seg]>>,
           count |-> count + 1]

\* A write that seals the segment when one byte of capacity is still left.
StateWriteSealsEarly(seg, count, buf, debug) ==
  LET len == Min(BLen(buf), segment_capacity(seg))
      seg1 == BCat(seg, BTake(buf, len))
  IN IF BLen(seg1) > SEGMENT_SIZE
     THEN [panic |-> TRUE, len |-> len, frame |-> <<>>, count |-> count,
           seg |-> seg]
     ELSE IF segment_capacity(seg1) <= 1
     THEN LET s == signcrypt_segment(seg1, count, FALSE, debug)
          IN [panic |-> s.panic, len |-> len, frame |-> s.frame,
              count |-> s.count, seg |-> IF s.panic THEN seg1 ELSE <<>>]
     ELSE [panic |-> FALSE, len |-> len, frame |-> <<>>, count |-> count,
           seg |-> seg1]

\* A write that reports buf.len() as consumed, whatever it took.
StateWriteReportsWholeBuf(seg, count, buf, debug) ==
  LET len == Min(BLen(buf), segment_capacity(seg))
      seg1 == BCat(seg, BTake(buf, len))
  IN IF segment_capacity(seg1) = 0
     THEN LET s == signcrypt_segment(seg1, count, FALSE, debug)
          IN [panic |-> s.panic, len |-> BLen(buf), frame |-> s.frame,
              count |-> s.count, seg |-> IF s.panic THEN seg1 ELSE <<>>]
     ELSE [panic |-> FALSE, len |-> BLen(buf), frame |-> <<>>,
           count |-> count, seg |-> seg1]

\* StreamState::write: consumed count, the segment left in the state, the
\* completed frame if any (a sequence of length 0 or 1), the new count.
\* try_extend_from_slice(..).expect(..) panics when the slice does not fit.
StateWrite(seg, count, buf, debug) ==
  LET len == Min(BLen(buf), segment_capacity(seg))
      seg1 == BCat(seg, BTake(buf, len))
  IN IF BLen(seg1) > SEGMENT_SIZE
     THEN [panic |-> TRUE, len |-> len, frame |-> <<>>, count |-> count,
           seg |-> seg]
     ELSE IF segment_capacity(seg1) = 0
     THEN LET s == signcrypt_segment(seg1, count, FALSE, debug)
          IN [panic |-> s.panic, len |-> len, frame |-> s.frame,
              count |-> s.count, seg |-> IF s.panic THEN seg1 ELSE <<>>]
     ELSE [panic |-> FALSE, len |-> len, frame |-> <<>>, count |-> count,
           seg |-> seg1]

(***************************************************************************)
(* StreamWriter (stream_writer.rs) and the downstream writer W.            *)
(*                                                                         *)
(* A public call runs until it needs an answer from the downstream writer  *)
(* (the only points where it blocks); each answer is one step. No other    *)
(* public call can start before the running one has returned: the writer   *)
(* is owned by one thread (&mut self).                                     *)
(***************************************************************************)
VARIABLES
  status,            \* "open" | "finished" | "failed" | "panicked"
  debug_assertions,  \* the build: TRUE when debug assertions are compiled in
  segment,           \* StreamState.segment (plaintext collected so far)
  segment_count,     \* StreamState.segment_count
  pending,           \* StreamWriter.pending_segment: <<>> or <<[frame, pos]>>
  out,               \* what the downstream writer received after the header
  pc,                \* where the running public call waits, or "idle"
  arg,               \* buf of the running write call
  fin,               \* finish: the last frame and write_all's position in it
  calls,             \* public calls made so far
  input,             \* history: bytes reported consumed by successful writes
  sealed,            \* history: the frames sealed, in sealing order
  last               \* history: the last public call and how it returned

swVars == <<status, debug_assertions, segment, segment_count, pending, out,
            pc, arg, fin, calls, input, sealed, last>>

\* The padding of a last segment taken on its own (pad_segment applied to a
\* segment of every possible pre-pad length).
VARIABLES
  pad_state,         \* "idle" | "input" | "padded" | "panicked"
  pad_p,             \* the pad length p: the segment holds 65536 - p bytes
  pad_seg            \* the segment, before and then after pad_segment

padVars == <<pad_state, pad_p, pad_seg>>

PadIdle == pad_state = "idle" /\ pad_p = 0 /\ pad_seg = <<>>

\* StreamChunker over a BufRead source (stream_chunker.rs, chunker_state.rs).
VARIABLES
  ck_config,         \* the ChunkerConfig
  ck_source,         \* the bytes B the source will deliver
  ck_rd,             \* how many of them the reader has had consumed
  ck_ended,          \* StreamChunker.ended
  ck_size,           \* ChunkerState.size
  ck_gear,           \* AesGearHash.state, four 16-bit limbs, low limb first
  ck_data,           \* data, the chunk next() is collecting
  ck_pc,             \* "idle", or "fill" inside next() before fill_buf
  ck_items,          \* history: what the calls of next() returned
  ck_after,          \* history: calls of next() made after the end
  ck_expected        \* history: the chunks of ck_source read in one fill

ckVars == <<ck_config, ck_source, ck_rd, ck_ended, ck_size, ck_gear, ck_data,
            ck_pc, ck_items, ck_after, ck_expected>>

NoConfig == [min_size |-> 0, avg_size |-> 0, max_size |-> 0,
             before_avg_size_mask |-> 0, after_avg_size_mask |-> 0]

ChunkIdle ==
  /\ ck_config = NoConfig /\ ck_source = <<>> /\ ck_rd = 0
  /\ ck_ended = FALSE /\ ck_size = 0 /\ ck_gear = <<0, 0, 0, 0>>
  /\ ck_data = <<>> /\ ck_pc = "off" /\ ck_items = <<>> /\ ck_after = 0
  /\ ck_expected = <<>>

\* PackWriter over a Write (pack_writer.rs).
VARIABLES
  pk_status,         \* "off", "open", then "finalized" or "failed"
  pk_written_size,   \* PackWriter.written_size
  pk_index,          \* PackWriter.index
  pk_out,            \* what the underlying writer has received, in pieces
  pk_calls,          \* history: the write calls and their results
  pk_size            \* history: size() read just before finalize

pkVars == <<pk_status, pk_written_size, pk_index, pk_out, pk_calls, pk_size>>

PackIdle ==
  /\ pk_status = "off" /\ pk_written_size = <<0, 0>> /\ pk_index = <<>>
  /\ pk_out = <<>> /\ pk_calls = <<>> /\ pk_size = <<0, 0>>

\* ChaChaBlake3 and one buffer it works on in place (chacha20_blake3.rs).
VARIABLES
  ae_pc,        \* "off", "ready", after encrypt "encrypted" / "enc_failed",
                \* in decrypt "dec_entered", "dec_tagged", then "dec_ok" /
                \* "dec_err"
  ae_key,       \* ChaChaBlake3.key
  ae_nonce,     \* nonce given to encrypt
  ae_ad,        \* associated data given to encrypt
  ae_plain,     \* history: the buffer before encrypt
  ae_buffer,    \* the buffer
  ae_tag,       \* tag returned by encrypt (NoTag when there is none)
  ae_given,     \* nonce, associated data and tag given to decrypt
  ae_computed,  \* computed_tag of decrypt
  ae_before,    \* history: the buffer when decrypt was entered
  ae_tampered,  \* history: the buffer was altered after encrypt
  ae_result     \* result of the last call

aeVars == <<ae_pc, ae_key, ae_nonce, ae_ad, ae_plain, ae_buffer, ae_tag,
            ae_given, ae_computed, ae_before, ae_tampered, ae_result>>

NoTag == 0 - 1

EmptyBuffer == [len |-> <<0, 0>>, bytes |-> <<>>]

NothingGiven == [nonce |-> 0, ad |-> <<>>, tag |-> NoTag]

AeadIdle ==
  /\ ae_pc = "off" /\ ae_key = 0 /\ ae_nonce = 0 /\ ae_ad = <<>>
  /\ ae_plain = EmptyBuffer /\ ae_buffer = EmptyBuffer /\ ae_tag = NoTag
  /\ ae_given = NothingGiven /\ ae_computed = NoTag
  /\ ae_before = EmptyBuffer /\ ae_tampered = FALSE /\ ae_result = "none"

\* Encryptor::with_random and the header it builds (encryptor.rs).
VARIABLES
  en_pc,           \* "off", "ready", then "built" or "rejected"
  en_recipients,   \* the recipient list, as runs of equal public keys
  en_file_key,     \* the file key drawn from the csprng
  en_header,       \* Encryptor.header, in pieces
  en_header_size,  \* header_size
  en_result        \* result of with_random

enVars == <<en_pc, en_recipients, en_file_key, en_header, en_header_size,
            en_result>>

EncryptorIdle ==
  /\ en_pc = "off" /\ en_recipients = <<>> /\ en_file_key = 0
  /\ en_header = <<>> /\ en_header_size = 0 /\ en_result = "none"

\* IndexWriter over the indices of packs (index_writer.rs).
VARIABLES
  ix_pc,       \* "off", "open", then "written" or "failed"
  ix_index,    \* IndexWriter.index
  ix_out,      \* what the writer has received, in pieces
  ix_added,    \* history: the entries in the order they were added
  ix_size      \* history: size() read just before write

ixVars == <<ix_pc, ix_index, ix_out, ix_added, ix_size>>

IndexIdle ==
  /\ ix_pc = "off" /\ ix_index = <<>> /\ ix_out = <<>> /\ ix_added = <<>>
  /\ ix_size = 0

\* PackWriter followed by its sizes only, over runs of successful writes
\* (pack_writer.rs).
VARIABLES
  pr_status,        \* "off", "open", then "finalized", "failed", "panicked"
  pr_written_size,  \* PackWriter.written_size
  pr_entries,       \* PackWriter.index.len()
  pr_runs           \* history: the runs of write calls made

prVars == <<pr_status, pr_written_size, pr_entries, pr_runs>>

PackRunsIdle ==
  /\ pr_status = "off" /\ pr_written_size = <<0, 0>>
  /\ pr_entries = <<0, 0>> /\ pr_runs = <<>>

\* ChunkerConfig::new and the first update of a ChunkerState made from what
\* it returns (chunker_state.rs).
VARIABLES
  cf_pc,      \* "off", "args", then "accepted" or "rejected", and after the
              \* update "updated" or "panicked"
  cf_args,    \* min_size, avg_size, max_size, normalization_bits
  cf_config,  \* the ChunkerConfig returned
  cf_first    \* what the first update did

cfVars == <<cf_pc, cf_args, cf_config, cf_first>>

NoUpdate == [underflow |-> FALSE, res |-> <<>>, size |-> 0]

ConfigIdle ==
  /\ cf_pc = "off" /\ cf_args = <<0, 0, 0, 0>> /\ cf_config = NoConfig
  /\ cf_first = NoUpdate

\* DirectoryCas: the directory, and the threads that call store and get on
\* it (cas/directory.rs, main.rs).
VARIABLES
  cas_files,     \* hash -> the file of that name: absent, or its bytes
  cas_threads,   \* thread -> where it is in store: pc, bytes, hash, offset
  cas_returned,  \* the (hash, bytes) pairs that some store has returned
  cas_got,       \* what the latest get found
  cas_skipped,   \* what the latest store that skipped the write found
  cas_calls      \* how many calls have been made

casVars ==
  <<cas_files, cas_threads, cas_returned, cas_got, cas_skipped, cas_calls>>

CasIdle ==
  /\ cas_files = <<>> /\ cas_threads = <<>> /\ cas_returned = {}
  /\ cas_got = <<>> /\ cas_skipped = <<>> /\ cas_calls = 0

\* What the steps of each component leave alone.
otherThanStream == <<padVars, ckVars, pkVars, aeVars, enVars, ixVars, prVars, cfVars,
   casVars>>
otherThanPad == <<swVars, ckVars, pkVars, aeVars, enVars, ixVars, prVars, cfVars,
   casVars>>
otherThanChunk == <<swVars, padVars, pkVars, aeVars, enVars, ixVars, prVars, cfVars,
   casVars>>
otherThanPack == <<swVars, padVars, ckVars, aeVars, enVars, ixVars, prVars, cfVars,
   casVars>>
otherThanAead == <<swVars, padVars, ckVars, pkVars, enVars, ixVars, prVars, cfVars,
   casVars>>
otherThanEncryptor == <<swVars, padVars, ckVars, pkVars, aeVars, ixVars, prVars, cfVars,
   casVars>>
otherThanIndex == <<swVars, padVars, ckVars, pkVars, aeVars, enVars, prVars, cfVars,
   casVars>>
otherThanPackRuns ==
  <<swVars, padVars, ckVars, pkVars, aeVars, enVars, ixVars, cfVars,
    casVars>>
otherThanConfig ==
  <<swVars, padVars, ckVars, pkVars, aeVars, enVars, ixVars, prVars,
    casVars>>
otherThanCas ==
  <<swVars, padVars, ckVars, pkVars, aeVars, enVars, ixVars, prVars,
    cfVars>>

\* The downstream writer took bytes lo+1..hi of frame f.
Deliver(o, f, lo, hi) ==
  IF o # <<>> /\ o[Len(o)].frame = f /\ o[Len(o)].hi = lo
  THEN [o EXCEPT ![Len(o)].hi = hi]
  ELSE Append(o, [frame |-> f, lo |-> lo, hi |-> hi])

\* A write_pending that returns Ok(()) when the downstream writer fails,
\* the frame still pending.
write_pendingIgnoresError(p, o, r) ==
  LET written == Min(r, FrameLen(p.frame) - p.pos)
      pos == p.pos + written
  IN IF r = ERR \/ r = INTR \/ written = 0
       THEN [pending |-> <<p>>, out |-> o, res |-> "ok"]
     ELSE IF pos = FrameLen(p.frame)
       THEN [pending |-> <<>>, out |-> Deliver(o, p.frame, p.pos, pos),
             res |-> "ok"]
     ELSE [pending |-> <<[frame |-> p.frame, pos |-> pos]>>,
           out |-> Deliver(o, p.frame, p.pos, pos), res |-> "more"]

\* A write_pending without the written == 0 check: it asks again.
write_pendingWithoutZeroCheck(p, o, r) ==
  LET written == Min(r, FrameLen(p.frame) - p.pos)
      pos == p.pos + written
  IN IF r = ERR THEN [pending |-> <<p>>, out |-> o, res |-> "Other"]
     ELSE IF r = INTR THEN [pending |-> <<p>>, out |-> o, res |-> "Interrupted"]
     ELSE IF written = 0 THEN [pending |-> <<p>>, out |-> o, res |-> "more"]
     ELSE IF pos = FrameLen(p.frame)
       THEN [pending |-> <<>>, out |-> Deliver(o, p.frame, p.pos, pos),
             res |-> "ok"]
     ELSE [pending |-> <<[frame |-> p.frame, pos |-> pos]>>,
           out |-> Deliver(o, p.frame, p.pos, pos), res |-> "more"]

\* A write_pending that keeps the slot once the whole frame is delivered.
write_pendingKeepsDelivered(p, o, r) ==
  LET written == Min(r, FrameLen(p.frame) - p.pos)
      pos == p.pos + written
  IN IF r = ERR THEN [pending |-> <<p>>, out |-> o, res |-> "Other"]
     ELSE IF r = INTR THEN [pending |-> <<p>>, out |-> o, res |-> "Interrupted"]
     ELSE IF written = 0 THEN [pending |-> <<p>>, out |-> o, res |-> "WriteZero"]
     ELSE IF pos = FrameLen(p.frame)
       THEN [pending |-> <<[frame |-> p.frame, pos |-> pos]>>,
             out |-> Deliver(o, p.frame, p.pos, pos), res |-> "ok"]
     ELSE [pending |-> <<[frame |-> p.frame, pos |-> pos]>>,
           out |-> Deliver(o, p.frame, p.pos, pos), res |-> "more"]

\* One turn of write_pending's loop on the pending slot p = [frame, pos],
\* the downstream writer answering r to writer.write(&segment[pos..]):
\* res is "more" (loop again), "ok" (the slot was emptied) or the error.
write_pending(p, o, r) ==
  LET written == Min(r, FrameLen(p.frame) - p.pos)
      pos == p.pos + written
  IN IF r = ERR THEN [pending |-> <<p>>, out |-> o, res |-> "Other"]
     ELSE IF r = INTR THEN [pending |-> <<p>>, out |-> o, res |-> "Interrupted"]
     ELSE IF written = 0 THEN [pending |-> <<p>>, out |-> o, res |-> "WriteZero"]
     ELSE IF pos = FrameLen(p.frame)
       THEN [pending |-> <<>>, out |-> Deliver(o, p.frame, p.pos, pos),
             res |-> "ok"]
     ELSE [pending |-> <<[frame |-> p.frame, pos |-> pos]>>,
           out |-> Deliver(o, p.frame, p.pos, pos), res |-> "more"]

\* One turn of Write::write_all (standard library) on the last frame, as
\* finish uses it: an interrupted call is retried, a zero-byte accept is
\* WriteZero.
write_all(p, o, r) ==
  LET written == Min(r, FrameLen(p.frame) - p.pos)
      pos == p.pos + written
  IN IF r = ERR THEN [fin |-> <<p>>, out |-> o, res |-> "Other"]
     ELSE IF r = INTR THEN [fin |-> <<p>>, out |-> o, res |-> "more"]
     ELSE IF written = 0 THEN [fin |-> <<p>>, out |-> o, res |-> "WriteZero"]
     ELSE IF pos = FrameLen(p.frame)
       THEN [fin |-> <<>>, out |-> Deliver(o, p.frame, p.pos, pos), res |-> "ok"]
     ELSE [fin |-> <<[frame |-> p.frame, pos |-> pos]>>,
           out |-> Deliver(o, p.frame, p.pos, pos), res |-> "more"]

NoCall == [op |-> "none", ret |-> "ok", err |-> "none", buflen |-> 0,
           consumed |-> 0, cap_before |-> SEGMENT_SIZE, seg_before |-> <<>>,
           count_before |-> 0, pending_before |-> <<>>, sealed_now |-> FALSE,
           zero_drain |-> FALSE, zero_deliver |-> FALSE, deliver_err |-> FALSE,
           consumed_at |-> <<>>]

\* The record of a call entered in the current state (ret "running" until
\* it returns).
Entered(op, buflen) ==
  [NoCall EXCEPT !.op = op, !.ret = "running", !.buflen = buflen,
                 !.cap_before = segment_capacity(segment),
                 !.seg_before = segment, !.count_before = segment_count,
                 !.pending_before = pending]

Returned(e, ret, err) == [e EXCEPT !.ret = ret, !.err = err]

InitStream ==
  /\ status = "open"
  /\ debug_assertions \in BOOLEAN
  /\ segment = <<>>
  /\ segment_count = 0
  /\ pending = <<>>
  /\ out = <<>>
  /\ pc = "idle"
  /\ arg = <<>>
  /\ fin = <<>>
  /\ calls = 0
  /\ input = <<>>
  /\ sealed = <<>>
  /\ last = NoCall

\* write, once write_pending()? has returned Ok: state.write(buf), the
\* debug assertion, and the first look at the frame it may have completed.
\* e is the call's record so far, pnd the pending slot at this point;
\* consumed_at records the slot state.write ran with.
Consume(buf, e, pnd) ==
  LET w == StateWrite(segment, segment_count, buf, debug_assertions)
  IN IF w.panic \/ (debug_assertions /\ w.len = 0)
     THEN /\ status' = "panicked"
          /\ pc' = "idle"
          /\ arg' = <<>>
          /\ pending' = pnd
          /\ last' = Returned(e, "panic", "none")
          /\ UNCHANGED <<segment, segment_count, input, sealed>>
     ELSE /\ segment' = w.seg
          /\ segment_count' = w.count
          /\ input' = BCat(input, BTake(buf, w.len))
          /\ UNCHANGED status
          /\ IF w.frame = <<>>
             THEN /\ pending' = pnd
                  /\ pc' = "idle"
                  /\ arg' = <<>>
                  /\ sealed' = sealed
                  /\ last' = Returned([e EXCEPT !.consumed = w.len,
                                                !.consumed_at = <<pnd>>],
                                      "ok", "none")
             ELSE /\ pending' = <<[frame |-> w.frame[1], pos |-> 0]>>
                  /\ pc' = "write_deliver"
                  /\ arg' = <<>>
                  /\ sealed' = Append(sealed, [frame |-> w.frame[1],
                                               prepad |-> SEGMENT_SIZE,
                                               by |-> "write"])
                  /\ last' = [e EXCEPT !.consumed = w.len, !.sealed_now = TRUE,
                                       !.consumed_at = <<pnd>>]

\* <StreamWriter as Write>::write is called with buf.
Write(buf) ==
  /\ status = "open" /\ pc = "idle"
  /\ calls < MaxCalls
  /\ calls' = calls + 1
  /\ UNCHANGED <<debug_assertions, out, fin>>
  /\ UNCHANGED otherThanStream
  /\ IF pending # <<>>
     THEN /\ pc' = "write_drain"
          /\ arg' = buf
          /\ last' = Entered("write", BLen(buf))
          /\ UNCHANGED <<status, segment, segment_count, pending, input, sealed>>
     ELSE Consume(buf, Entered("write", BLen(buf)), pending)

\* write: the downstream writer answers r inside the first write_pending
\* (the frame an earlier call left pending).
WriteDrain(r) ==
  /\ pc = "write_drain"
  /\ UNCHANGED otherThanStream
  /\ UNCHANGED <<debug_assertions, fin, calls>>
  /\ LET d == write_pending(pending[1], out, r)
     IN /\ out' = d.out
        /\ IF d.res = "more"
           THEN /\ pending' = d.pending
                /\ last' = [last EXCEPT !.zero_drain = @ \/ r = 0]
                /\ UNCHANGED <<status, segment, segment_count, pc, arg, input,
                               sealed>>
           ELSE IF d.res = "ok"
           THEN Consume(arg, [last EXCEPT !.zero_drain = @ \/ r = 0], d.pending)
           ELSE /\ pending' = d.pending
                /\ pc' = "idle"
                /\ arg' = <<>>
                /\ last' = Returned([last EXCEPT !.zero_drain = @ \/ r = 0],
                                    "err", d.res)
                /\ UNCHANGED <<status, segment, segment_count, input, sealed>>

\* write: the downstream writer answers r inside the second write_pending
\* (the frame this call completed); its error is ignored.
WriteDeliver(r) ==
  /\ pc = "write_deliver"
  /\ UNCHANGED otherThanStream
  /\ UNCHANGED <<status, debug_assertions, segment, segment_count, arg, fin,
                 calls, input, sealed>>
  /\ LET d == write_pending(pending[1], out, r)
     IN /\ out' = d.out
        /\ pending' = d.pending
        /\ IF d.res = "more"
           THEN /\ last' = [last EXCEPT !.zero_deliver = @ \/ r = 0]
                /\ UNCHANGED pc
           ELSE /\ pc' = "idle"
                /\ last' = Returned([last EXCEPT
                                       !.zero_deliver = @ \/ r = 0,
                                       !.deliver_err = (d.res # "ok")],
                                    "ok", "none")

\* <StreamWriter as Write>::flush is called.
Flush ==
  /\ status = "open" /\ pc = "idle"
  /\ calls < MaxCalls
  /\ calls' = calls + 1
  /\ pc' = IF pending # <<>> THEN "flush_drain" ELSE "flush_flush"
  /\ UNCHANGED otherThanStream
  /\ last' = Entered("flush", 0)
  /\ UNCHANGED <<status, debug_assertions, segment, segment_count, pending,
                 out, arg, fin, input, sealed>>

\* flush: the downstream writer answers r inside write_pending.
FlushDrain(r) ==
  /\ pc = "flush_drain"
  /\ UNCHANGED otherThanStream
  /\ UNCHANGED <<status, debug_assertions, segment, segment_count, arg, fin,
                 calls, input, sealed>>
  /\ LET d == write_pending(pending[1], out, r)
     IN /\ out' = d.out
        /\ pending' = d.pending
        /\ IF d.res = "more"
           THEN /\ last' = [last EXCEPT !.zero_drain = @ \/ r = 0]
                /\ UNCHANGED pc
           ELSE IF d.res = "ok"
           THEN /\ pc' = "flush_flush"
                /\ last' = [last EXCEPT !.zero_drain = @ \/ r = 0]
           ELSE /\ pc' = "idle"
                /\ last' = Returned([last EXCEPT !.zero_drain = @ \/ r = 0],
                                    "err", d.res)

\* flush: the downstream writer's flush() returns.
FlushFlush(flushed) ==
  /\ pc = "flush_flush"
  /\ UNCHANGED otherThanStream
  /\ pc' = "idle"
  /\ last' = IF flushed THEN Returned(last, "ok", "none")
             ELSE Returned(last, "err", "Other")
  /\ UNCHANGED <<status, debug_assertions, segment, segment_count, pending,
                 out, arg, fin, calls, input, sealed>>

\* StreamWriter::finish is called: it takes the writer by value, seals the
\* last segment and starts write_all on it.
Finish ==
  /\ status = "open" /\ pc = "idle"
  /\ calls < MaxCalls
  /\ calls' = calls + 1
  /\ UNCHANGED <<debug_assertions, out, arg, input>>
  /\ UNCHANGED otherThanStream
  /\ LET s == signcrypt_segment(segment, segment_count, TRUE, debug_assertions)
         e == Entered("finish", 0)
     IN IF s.panic
        THEN /\ status' = "panicked"
             /\ last' = Returned(e, "panic", "none")
             /\ UNCHANGED <<segment, segment_count, pending, pc, fin, sealed>>
        ELSE /\ status' = "finishing"
             /\ pc' = "finish_write_all"
             /\ fin' = <<[frame |-> s.frame[1], pos |-> 0]>>
             /\ segment' = <<>>
             /\ segment_count' = s.count
             /\ sealed' = Append(sealed, [frame |-> s.frame[1],
                                          prepad |-> BLen(segment),
                                          by |-> "finish"])
             /\ last' = [e EXCEPT !.sealed_now = TRUE]
             /\ UNCHANGED pending

\* finish: the downstream writer answers r inside write_all; on return the
\* writer, and with it whatever was pending, is gone.
FinishWriteAll(r) ==
  /\ pc = "finish_write_all"
  /\ UNCHANGED otherThanStream
  /\ UNCHANGED <<debug_assertions, segment, segment_count, arg, calls, input,
                 sealed>>
  /\ LET d == write_all(fin[1], out, r)
     IN /\ out' = d.out
        /\ IF d.res = "more"
           THEN /\ fin' = d.fin
                /\ UNCHANGED <<status, pending, pc, last>>
           ELSE /\ fin' = <<>>
                /\ pending' = <<>>
                /\ pc' = "idle"
                /\ status' = IF d.res = "ok" THEN "finished" ELSE "failed"
                /\ last' = IF d.res = "ok" THEN Returned(last, "ok", "none")
                           ELSE Returned(last, "err", d.res)

\* The k-th public call, when it is a write, passes bytes of value k: every
\* consumed byte tells which call brought it.
Bufs == {BRepeat(calls + 1, n) : n \in BufLens}

NextStream ==
  \/ \E buf \in Bufs : Write(buf)
  \/ \E r \in Responses : WriteDrain(r)
  \/ \E r \in Responses : WriteDeliver(r)
  \/ Flush
  \/ \E r \in Responses : FlushDrain(r)
  \/ \E flushed \in BOOLEAN : FlushFlush(flushed)
  \/ Finish
  \/ \E r \in Responses : FinishWriteAll(r)

(***************************************************************************)
(* pad_segment on its own.                                                 *)
(***************************************************************************)
\* Byte values a segment is filled with before it is padded.
FillBytes == {0, 255}

\* A segment of any length a writer can hold between two calls (0..65535
\* bytes), in either build.
InitPad ==
  /\ InitStream
  /\ ChunkIdle
  /\ PackIdle
  /\ AeadIdle
  /\ EncryptorIdle
  /\ IndexIdle
  /\ PackRunsIdle
  /\ ConfigIdle
  /\ CasIdle
  /\ pad_state = "input"
  /\ pad_p \in 1..SEGMENT_SIZE
  /\ \E b \in FillBytes : pad_seg = BRepeat(b, SEGMENT_SIZE - pad_p)

PadSegment ==
  /\ pad_state = "input"
  /\ LET r == pad_segment(pad_seg, debug_assertions)
     IN /\ pad_state' = IF r.panic THEN "panicked" ELSE "padded"
        /\ pad_seg' = r.seg
  /\ UNCHANGED <<pad_p, otherThanPad>>

\* The decoding rule: a non-zero final byte is the pad length; a zero final
\* byte means the pad length is the LE16 in the two bytes before it.
DecodePad(s) ==
  LET n == BLen(s)
      t == BAt(s, n)
  IN IF t # 0 THEN t ELSE BAt(s, n - 2) + 256 * BAt(s, n - 1)

vars ==
  <<swVars, padVars, ckVars, pkVars, aeVars, enVars, ixVars, prVars,
    cfVars, casVars>>

Init ==
  /\ InitStream /\ PadIdle /\ ChunkIdle /\ PackIdle /\ AeadIdle
  /\ EncryptorIdle /\ IndexIdle /\ PackRunsIdle /\ ConfigIdle
  /\ CasIdle
Next == NextStream
Spec == Init /\ [][Next]_vars

NextPad == PadSegment
SpecPad == InitPad /\ [][NextPad]_vars

\* C3: for every p in [1, 65536], padding a last segment of pre-pad length
\* 65536 - p gives a buffer of exactly 65536 bytes from which the decoding
\* rule recovers p.
C3_PadLengthRecovered ==
  pad_state \in {"padded", "panicked"} =>
    /\ pad_state = "padded"
    /\ BLen(pad_seg) = SEGMENT_SIZE
    /\ DecodePad(pad_seg) = pad_p

\* Every pad length p a u16 can hold is recovered.
C3_PadLengthRecoveredBelow65536 ==
  (pad_state \in {"padded", "panicked"} /\ pad_p <= U16_MAX) =>
    /\ pad_state = "padded"
    /\ BLen(pad_seg) = SEGMENT_SIZE
    /\ DecodePad(pad_seg) = pad_p
(***************************************************************************)
(* Properties of the archive stream writer.                                *)
(***************************************************************************)
FRAME_SIZE == SEGMENT_SIZE + SIGNATURE_SIZE + TAG_SIZE

\* finish has sealed the last segment (whether or not write_all succeeded).
FinishSealed == status \in {"finishing", "finished", "failed"}

\* The frames fs, each delivered whole, one after the other.
Whole(fs) == [i \in 1..Len(fs) |->
                [frame |-> fs[i].frame, lo |-> 0, hi |-> FrameLen(fs[i].frame)]]

\* Frame i of the sealing order carries segment_count i - 1; only the frame
\* at position n carries the last flag.
InCountOrder(fs, n) ==
  \A i \in 1..Len(fs) :
    /\ NonceCounter(fs[i].frame.nonce) = i - 1
    /\ NonceLast(fs[i].frame.nonce) <=> (i = n)
    /\ FrameLen(fs[i].frame) = FRAME_SIZE

\* C1: if finish returns success, the bytes the underlying writer received
\* after the header are exactly the sealed frames in segment_count order
\* 0, 1, 2, ..., each complete (65632 bytes), ending with the last-flag
\* frame: nothing skipped, nothing reordered.
C1_FinishedStreamIsTheFramesInOrder ==
  status = "finished" =>
    /\ out = Whole(sealed)
    /\ InCountOrder(sealed, Len(sealed))

DeliveredUpToPending ==
  IF pending = <<>> THEN out = Whole(sealed)
  ELSE /\ sealed # <<>>
       /\ pending[1].frame = sealed[Len(sealed)].frame
       /\ pending[1].pos < FrameLen(pending[1].frame)
       /\ out = Whole(SubSeq(sealed, 1, Len(sealed) - 1))
                  \o (IF pending[1].pos = 0 THEN <<>>
                      ELSE <<[frame |-> pending[1].frame, lo |-> 0,
                              hi |-> pending[1].pos]>>)

\* C4: write consumes input only when no frame is pending; a write that
\* cannot drain the pending frame returns an error with the segment buffer
\* and segment_count unchanged (nothing consumed); the retry resumes from
\* the saved position, neither re-sending nor skipping bytes.
C4_NoInputWhilePending ==
  /\ (last.op = "write" /\ last.consumed_at # <<>>) => last.consumed_at = <<<<>>>>
  /\ (last.op = "write" /\ last.ret = "err") =>
        /\ last.consumed_at = <<>>
        /\ last.consumed = 0
        /\ segment = last.seg_before
        /\ segment_count = last.count_before
        /\ pending # <<>>
        /\ last.pending_before # <<>>
        /\ pending[1].frame = last.pending_before[1].frame
        /\ pending[1].pos >= last.pending_before[1].pos
  /\ status = "open" => DeliveredUpToPending

\* C4's case: a write that found a partly delivered frame, got some more of
\* it delivered and then failed to drain it.
C4_Witness ==
  /\ last.op = "write" /\ last.ret = "err"
  /\ last.pending_before # <<>>
  /\ pending[1].pos > last.pending_before[1].pos

\* C5: a write that completed a segment and met a downstream failure while
\* delivering the frame returns success with the bytes consumed and keeps
\* the undelivered remainder pending; the call that follows reports the
\* failure: it does not return success unless the remainder went out.
C5_FailureDeferredToNextCall ==
  /\ (last.op = "write" /\ last.deliver_err) =>
        /\ last.ret = "ok"
        /\ last.consumed >= 1
        /\ pending # <<>>
        /\ pending[1].frame = sealed[Len(sealed)].frame
  /\ (last.pending_before # <<>> /\ last.ret = "ok") =>
        \E i \in 1..Len(out) :
          /\ out[i].frame = last.pending_before[1].frame
          /\ out[i].hi = FrameLen(out[i].frame)

\* C6: a write that returns success reports at least 1 byte consumed, and at
\* most the remaining capacity of the current segment.
C6_WriteConsumesAtLeastOne ==
  (last.op = "write" /\ last.ret = "ok") =>
     /\ last.consumed >= 1
     /\ last.consumed <= last.cap_before

\* C7 as stated: a zero-byte accept by the downstream writer during a write
\* call makes that call return the write-zero error.
C7_ZeroAcceptSurfaces ==
  (last.op = "write" /\ (last.zero_drain \/ last.zero_deliver)) =>
     /\ last.ret = "err"
     /\ last.err = "WriteZero"

\* C7 amended: a zero-byte accept while write drains a frame an earlier
\* call left pending makes the call return the write-zero error, nothing
\* consumed; a zero-byte accept while write delivers the frame it has just
\* completed is not surfaced: the call returns success with the bytes
\* consumed and the frame stays pending.
C7_ZeroAcceptSurfacesWhenDraining ==
  /\ (last.op = "write" /\ last.zero_drain) =>
        /\ last.ret = "err"
        /\ last.err = "WriteZero"
        /\ last.consumed = 0
        /\ pending # <<>>
  /\ (last.op = "write" /\ last.zero_deliver) =>
        /\ last.ret = "ok"
        /\ last.consumed >= 1
        /\ pending # <<>>

\* C7's case: the downstream writer accepted zero bytes of a frame that an
\* earlier call had left pending.
C7_Witness ==
  /\ last.op = "write"
  /\ last.zero_drain
  /\ last.pending_before # <<>>

\* C8: in a finished stream exactly one frame carries the last-segment bit,
\* and it is the final one; every frame sealed by write has the bit clear;
\* nothing is sealed after finish.
C8_OneLastFrame ==
  /\ \A i \in 1..Len(sealed) :
        /\ NonceLast(sealed[i].frame.nonce) <=> (sealed[i].by = "finish")
        /\ sealed[i].by = "finish" => (i = Len(sealed) /\ FinishSealed)
  /\ FinishSealed =>
        /\ sealed # <<>>
        /\ sealed[Len(sealed)].by = "finish"
        /\ Cardinality({i \in 1..Len(sealed) :
                          NonceLast(sealed[i].frame.nonce)}) = 1
        /\ Len(sealed) = segment_count

\* C8's case: a finished stream of several frames.
C8_Witness ==
  /\ status = "finished"
  /\ Len(sealed) >= 3

\* The plaintext the frames carry: each frame's plaintext up to the length
\* it had before padding.
RECURSIVE Carried(_)
Carried(fs) ==
  IF fs = <<>> THEN <<>>
  ELSE BCat(BTake(fs[1].frame.plain, fs[1].prepad), Carried(Tail(fs)))

RECURSIVE SumPrepad(_)
SumPrepad(fs) == IF fs = <<>> THEN 0 ELSE fs[1].prepad + SumPrepad(Tail(fs))

\* C9: the plaintext carried by a finished stream (the 65536 bytes of every
\* non-final segment, then the pre-pad prefix of the final one) is exactly
\* the bytes reported consumed by the successful writes, in order; so the
\* pre-pad lengths add up to the returned counts.
C9_CarriedPlaintextIsInput ==
  FinishSealed =>
    /\ Carried(sealed) = input
    /\ SumPrepad(sealed) = BLen(input)
    /\ \A i \in 1..Len(sealed) - 1 : sealed[i].prepad = SEGMENT_SIZE

\* C9's case: a finished stream whose input came from several writes and
\* spans more than one segment, the last one partly filled.
C9_Witness ==
  /\ status = "finished"
  /\ Len(sealed) >= 2
  /\ Len(input) >= 2
  /\ sealed[Len(sealed)].prepad > 0

\* The nonces of the frames sealed so far, in sealing order.
SealedNonces == [i \in 1..Len(sealed) |-> sealed[i].frame.nonce]

\* The counter of a nonce is below 2^63: apart from the last flag, bit 63,
\* the top bit of byte 12, nothing is set above the low 32 bits.
CounterBelowTwoTo63(nc) ==
  /\ \A k \in 9..11 : nc[k] = 0
  /\ nc[12] \in {0, 128}

\* One step seals at most one segment, and segment_count goes up by exactly
\* one when it does and stays otherwise.
CountsSealedSegments ==
  \/ /\ sealed' = sealed
     /\ segment_count' = segment_count
  \/ /\ Len(sealed') = Len(sealed) + 1
     /\ SubSeq(sealed', 1, Len(sealed)) = sealed
     /\ segment_count' = segment_count + 1
     /\ NonceCounter(sealed'[Len(sealed')].frame.nonce) = segment_count

\* C29: within one stream no two sealed segments use the same nonce;
\* segment_count starts at 0 and goes up by exactly one per sealed segment,
\* and the nonce of the segment sealed at count c is four zero bytes
\* followed by the little-endian 64 bits of c | last << 63, where c stays
\* below 2^63, so the last flag never meets a bit of the counter.
C29_NoncesNeverRepeat ==
  /\ [](/\ segment_count = Len(sealed)
        /\ \A i \in 1..Len(sealed) :
              /\ SubSeq(SealedNonces[i], 1, 4) = <<0, 0, 0, 0>>
              /\ NonceCounter(SealedNonces[i]) = i - 1
              /\ SealedNonces[i]
                   = nonce(i - 1, sealed[i].by = "finish")
              /\ CounterBelowTwoTo63(SealedNonces[i])
        /\ \A i, j \in 1..Len(sealed) :
              i # j => SealedNonces[i] # SealedNonces[j])
  /\ [][CountsSealedSegments]_vars

\* C29's case: a finished stream of several frames, the last of which
\* carries the flag next to a counter that is not zero.
C29_Witness ==
  /\ status = "finished"
  /\ Len(sealed) >= 3
  /\ NonceLast(SealedNonces[Len(sealed)])
  /\ NonceCounter(SealedNonces[Len(sealed)]) = Len(sealed) - 1
  /\ segment_count = 3

\* No public call of the stream writer is in progress.
BetweenCalls == pc = "idle" /\ status = "open"

\* The number of bytes finish added to the segment it sealed.
PadOf(f) == SEGMENT_SIZE - f.prepad

\* C30: between any two public calls the plaintext segment buffer holds at
\* most 65535 bytes, so the segment finish seals is padded by at least one
\* byte; and a pending frame that is held has 0 <= pos < 65632, the length
\* of a frame: a frame delivered whole is never kept.
C30_BufferBelowSegmentSize ==
  /\ BetweenCalls => BLen(segment) <= SEGMENT_SIZE - 1
  /\ \A i \in 1..Len(sealed) :
        sealed[i].by = "finish" => PadOf(sealed[i]) >= 1
  /\ pending # <<>> =>
        /\ FrameLen(pending[1].frame)
             = SEGMENT_SIZE + SIGNATURE_SIZE + TAG_SIZE
        /\ 0 <= pending[1].pos
        /\ pending[1].pos < FrameLen(pending[1].frame)

\* C30's case: between two calls a frame is held of which the downstream
\* writer has taken a part, the write that sealed it having first filled a
\* buffer of 65535 bytes.
C30_Witness ==
  /\ BetweenCalls
  /\ pending # <<>>
  /\ pending[1].pos > 0
  /\ BLen(segment) = 0
  /\ Len(input) >= 2
  /\ BLen(input) = SEGMENT_SIZE

\* The buffer one byte short of a segment between two calls, and the stream
\* finished from there with a pad of one byte.
C30_PaddedByOne ==
  /\ status = "finished"
  /\ sealed # <<>>
  /\ sealed[Len(sealed)].by = "finish"
  /\ PadOf(sealed[Len(sealed)]) = 1
(***************************************************************************)
(* The AES-Gear rolling hash (aes_gear.rs). The 64-bit register is four    *)
(* 16-bit limbs, low limb first.                                           *)
(***************************************************************************)
LIMB == 65536

\* state.rotate_left(1) on 64 bits: the top bit comes back in at the bottom.
RotateLeft1(h) ==
  [k \in 1..4 |->
     ((2 * h[k]) % LIMB)
       + (IF k > 1 THEN h[k - 1] \div (LIMB \div 2)
                   ELSE h[4] \div (LIMB \div 2))]

\* state << 1 on 64 bits.
Shl1(h) == [k \in 1..4 |->
              ((2 * h[k]) % LIMB) + (IF k > 1 THEN h[k - 1] \div (LIMB \div 2) ELSE 0)]

\* a.wrapping_add(b) on 64 bits.
WrappingAdd(a, b) ==
  LET s1 == a[1] + b[1]
      s2 == a[2] + b[2] + s1 \div LIMB
      s3 == a[3] + b[3] + s2 \div LIMB
      s4 == a[4] + b[4] + s3 \div LIMB
  IN <<s1 % LIMB, s2 % LIMB, s3 % LIMB, s4 % LIMB>>

\* DEFAULT_TABLE[byte]: a fixed table of 64-bit constants, one per byte
\* value.
DEFAULT_TABLE(byte) ==
  <<(byte * 40503 + 25717) % LIMB, (byte * 30011 + 9973) % LIMB,
    (byte * 12289 + 50021) % LIMB, (byte * 24593 + 3079) % LIMB>>

\* AesGearHash::update
GearUpdate(h, byte) == WrappingAdd(Shl1(h), DEFAULT_TABLE(byte))

\* The first 8 bytes of AES-128 applied to the block (state || zeros): the
\* cipher is the aes crate's, a keyed permutation used as a PRF; here a
\* fixed mixing function of the whole register stands for it.
Aes128First8(h) ==
  LET x == (h[1] * 7 + h[2] * 13 + h[3] * 29 + h[4] * 31 + 5) % LIMB
      y == (x * 251 + (x \div 256) * 113 + h[1] \div 16) % LIMB
      z == (y * 197 + (y \div 64) * 59 + x) % LIMB
  IN <<z, (y * 3 + h[2]) % LIMB, (x * 5 + h[3]) % LIMB, (z + h[4]) % LIMB>>

\* AesGearHash::hash
GearHash(h) == Aes128First8(h)

\* hash & mask == 0 for a mask 2^k - 1 < 2^31 (all the low bits).
MaskedIsZero(hv, mask) ==
  /\ hv[1] % ((mask % LIMB) + 1) = 0
  /\ hv[2] % ((mask \div LIMB) + 1) = 0

(***************************************************************************)
(* ChunkerConfig and ChunkerState (chunker_state.rs).                      *)
(***************************************************************************)
RECURSIVE ilog2(_)
ilog2(n) == IF n <= 1 THEN 0 ELSE 1 + ilog2(n \div 2)

RECURSIVE BitAnd(_, _)
BitAnd(a, b) ==
  IF a = 0 \/ b = 0 THEN 0
  ELSE (a % 2) * (b % 2) + 2 * BitAnd(a \div 2, b \div 2)

\* ChunkerConfig::new accepts the parameters (its two assertions hold).
ConfigAccepted(min_size, avg_size, max_size, normalization_bits) ==
  /\ avg_size >= 1
  /\ BitAnd(avg_size, avg_size - 1) = 0
  /\ ilog2(avg_size) > normalization_bits

\* ChunkerConfig::new
ChunkerConfigNew(min_size, avg_size, max_size, normalization_bits) ==
  LET avg_base == ilog2(avg_size)
  IN [min_size |-> min_size, avg_size |-> avg_size, max_size |-> max_size,
      before_avg_size_mask |-> 2 * (2 ^ (avg_base + normalization_bits)) - 1,
      after_avg_size_mask |-> 2 * (2 ^ (avg_base - normalization_bits)) - 1]

LoopsDoneNever(cfg, size) == FALSE

\* No loop of ChunkerState::update has bytes left to take: size has reached
\* min_size - 1, avg_size and max_size.
LoopsDone(cfg, size) ==
  /\ ~(size < cfg.min_size - 1)
  /\ ~(size < cfg.avg_size)
  /\ ~(size < cfg.max_size)

\* The mask of the loop that is running, 0 in the first, which tests none.
LoopMask(cfg, size) ==
  IF size < cfg.min_size - 1 THEN 0
  ELSE IF size < cfg.avg_size THEN cfg.before_avg_size_mask
  ELSE cfg.after_avg_size_mask

\* The end of a turn, g being the register after gear.update(buf[i]): a
\* boundary if the loop tests and the masked hash is zero.
TurnEnd(cfg, size, g, i) ==
  IF ~(size < cfg.min_size - 1) /\ MaskedIsZero(GearHash(g), LoopMask(cfg, size))
  THEN [res |-> <<i + 1>>, size |-> 0, gear |-> g]
  ELSE [res |-> <<>>, size |-> size + 1, gear |-> g]

\* One turn of the loop that is running at offset i of buf: the first hashes
\* up to min_size - 1 without testing, the second tests the strict mask up
\* to avg_size, the third the relaxed mask up to max_size, and past them the
\* chunk is cut. st.res is <<>> while update has not returned, and
\* <<consumed>> once it has returned Some(consumed).
UpdateTurn(cfg, st, buf, i) ==
  IF st.res # <<>> THEN st
  ELSE IF LoopsDone(cfg, st.size)
  THEN [res |-> <<i>>, size |-> 0, gear |-> st.gear]
  ELSE TurnEnd(cfg, st.size, GearUpdate(st.gear, buf[i + 1]), i)

\* The turns for the bytes at offsets lo .. hi - 1 of buf, one after the
\* other (evaluated by halves, which keeps the nesting logarithmic).
RECURSIVE UpdateTurns(_, _, _, _, _)
UpdateTurns(cfg, st, buf, lo, hi) ==
  IF st.res # <<>> \/ lo >= hi THEN st
  ELSE IF hi - lo = 1 THEN UpdateTurn(cfg, st, buf, lo)
  ELSE UpdateTurns(cfg, UpdateTurns(cfg, st, buf, lo, (lo + hi) \div 2),
                   buf, (lo + hi) \div 2, hi)

\* The loops have run to st over the whole of buf: the buffer ran out
\* (None) or a boundary was returned; a chunk that reaches max_size with the
\* last byte of buf is cut there.
UpdateEnd(cfg, st, buf) ==
  IF st.res = <<>> /\ LoopsDone(cfg, st.size)
  THEN [res |-> <<Len(buf)>>, size |-> 0, gear |-> st.gear]
  ELSE st

\* The loops of ChunkerState::update from offset i of buf on.
UpdateLoops(cfg, size, gear, buf, i) ==
  UpdateEnd(cfg,
            UpdateTurns(cfg, [res |-> <<>>, size |-> size, gear |-> gear],
                        buf, i, Len(buf)),
            buf)

\* ChunkerState::update that does not count the bytes it skips.
updateSkipUncounted(cfg, size, gear, buf) ==
  IF size < cfg.min_size - 64
  THEN LET to_skip == cfg.min_size - 64 - size
       IN IF to_skip >= Len(buf)
          THEN [res |-> <<>>, size |-> size + Len(buf), gear |-> gear]
          ELSE UpdateLoops(cfg, size, gear, buf, to_skip)
  ELSE UpdateLoops(cfg, size, gear, buf, 0)

\* ChunkerState::update
update(cfg, size, gear, buf) ==
  IF size < cfg.min_size - 64
  THEN LET to_skip == cfg.min_size - 64 - size
       IN IF to_skip >= Len(buf)
          THEN [res |-> <<>>, size |-> size + Len(buf), gear |-> gear]
          ELSE UpdateLoops(cfg, size + to_skip, gear, buf, to_skip)
  ELSE UpdateLoops(cfg, size, gear, buf, 0)

(***************************************************************************)
(* StreamChunker (stream_chunker.rs): next() runs until it needs the       *)
(* source's fill_buf, the only point where it blocks.                      *)
(***************************************************************************)
\* next() calls made after the iterator has ended.
MaxTrailingNext == 1

\* The chunks a StreamChunker with a fresh ChunkerState, its register at
\* gear, yields for a source whose first fill returns all of rest: after a
\* boundary the next fill returns what is left, and the end of input yields
\* what was collected.
RECURSIVE OneFillChunks(_, _, _)
OneFillAfter(cfg, rest, u) ==
  IF u.res = <<>> THEN <<rest>>
  ELSE <<SubSeq(rest, 1, u.res[1])>>
         \o OneFillChunks(cfg, u.gear, SubSeq(rest, u.res[1] + 1, Len(rest)))

OneFillChunks(cfg, gear, rest) ==
  IF rest = <<>> THEN <<>>
  ELSE OneFillAfter(cfg, rest, update(cfg, 0, gear, rest))

\* Lengths and seeds of the inputs, and the configurations (min_size,
\* avg_size, max_size, normalization_bits), of min_size 64 at least.
InputLens == {0, 1, 100, 190, 250}
InputSeeds == {5, 18, 39}
ConfigParams == {<<64, 128, 192, 1>>, <<64, 64, 100, 0>>, <<80, 128, 128, 2>>,
                 <<100, 64, 80, 0>>}
\* Sizes of the views fill_buf may return (capped by what is left).
FillSizes == {1, 23, 150}

\* An input of len bytes.
PatternInput(seed, len) ==
  SubSeq([i \in 1..len |->
            ((i * i * seed + i * 7919 + seed * 104729) \div 13) % (U8_MAX + 1)],
         1, len)

InitChunk ==
  /\ InitStream
  /\ PadIdle
  /\ PackIdle
  /\ AeadIdle
  /\ EncryptorIdle
  /\ IndexIdle
  /\ PackRunsIdle
  /\ ConfigIdle
  /\ CasIdle
  /\ \E c \in ConfigParams :
       /\ ConfigAccepted(c[1], c[2], c[3], c[4])
       /\ ck_config = ChunkerConfigNew(c[1], c[2], c[3], c[4])
  /\ \E seed \in InputSeeds, len \in InputLens :
       ck_source = PatternInput(seed, len)
  /\ ck_rd = 0
  /\ ck_ended = FALSE
  /\ ck_size = 0
  /\ ck_gear = <<0, 0, 0, 0>>
  /\ ck_data = <<>>
  /\ ck_pc = "idle"
  /\ ck_items = <<>>
  /\ ck_after = 0
  /\ ck_expected = OneFillChunks(ck_config, <<0, 0, 0, 0>>, ck_source)

\* data after data.extend_from_slice(&buf[..consumed])
CollectedWholeView(data, buf, consumed) == data \o buf

Collected(data, buf, consumed) == data \o SubSeq(buf, 1, consumed)

Item(kind, data) == [kind |-> kind, data |-> data]

\* next() is called.
NextItem ==
  /\ ck_pc = "idle"
  /\ IF ck_ended
     THEN /\ ck_after < MaxTrailingNext
          /\ ck_items' = Append(ck_items, Item("none", <<>>))
          /\ ck_after' = ck_after + 1
          /\ UNCHANGED <<ck_data, ck_pc>>
     ELSE /\ ck_data' = <<>>
          /\ ck_pc' = "fill"
          /\ UNCHANGED <<ck_items, ck_after>>
  /\ UNCHANGED <<ck_config, ck_source, ck_rd, ck_ended, ck_size, ck_gear,
                 ck_expected>>
  /\ UNCHANGED otherThanChunk

\* fill_buf returns a non-empty view of k bytes at most.
Fill(k) ==
  /\ ck_pc = "fill"
  /\ ck_rd < Len(ck_source)
  /\ \E buf \in {SubSeq(ck_source, ck_rd + 1, Min(ck_rd + k, Len(ck_source)))} :
     \E u \in {update(ck_config, ck_size, ck_gear, buf)} :
     LET consumed == IF u.res = <<>> THEN Len(buf) ELSE u.res[1]
         data == Collected(ck_data, buf, consumed)
     IN /\ ck_size' = u.size
        /\ ck_gear' = u.gear
        /\ ck_rd' = ck_rd + consumed
        /\ IF u.res # <<>>
           THEN /\ ck_items' = Append(ck_items, Item("chunk", data))
                /\ ck_data' = <<>>
                /\ ck_pc' = "idle"
           ELSE /\ ck_data' = data
                /\ UNCHANGED <<ck_items, ck_pc>>
  /\ UNCHANGED <<ck_config, ck_source, ck_ended, ck_after, ck_expected>>
  /\ UNCHANGED otherThanChunk

\* fill_buf returns an empty view: end of input.
FillEnd ==
  /\ ck_pc = "fill"
  /\ ck_rd = Len(ck_source)
  /\ ck_ended' = TRUE
  /\ ck_items' = IF ck_data = <<>> THEN Append(ck_items, Item("none", <<>>))
                 ELSE Append(ck_items, Item("chunk", ck_data))
  /\ ck_data' = <<>>
  /\ ck_pc' = "idle"
  /\ UNCHANGED <<ck_config, ck_source, ck_rd, ck_size, ck_gear, ck_after,
                 ck_expected>>
  /\ UNCHANGED otherThanChunk

\* fill_buf returns an error that next() yields without ending.
FillErrorStaysOpen ==
  /\ ck_pc = "fill"
  /\ ck_items' = Append(ck_items, Item("err", <<>>))
  /\ ck_data' = <<>>
  /\ ck_pc' = "idle"
  /\ UNCHANGED <<ck_config, ck_source, ck_rd, ck_size, ck_gear, ck_after,
                 ck_expected, ck_ended>>
  /\ UNCHANGED otherThanChunk

\* fill_buf returns an error.
FillError ==
  /\ ck_pc = "fill"
  /\ ck_ended' = TRUE
  /\ ck_items' = Append(ck_items, Item("err", <<>>))
  /\ ck_data' = <<>>
  /\ ck_pc' = "idle"
  /\ UNCHANGED <<ck_config, ck_source, ck_rd, ck_size, ck_gear, ck_after,
                 ck_expected>>
  /\ UNCHANGED otherThanChunk

NextChunk ==
  \/ NextItem
  \/ \E k \in FillSizes : Fill(k)
  \/ FillEnd
  \/ FillError

SpecChunk == InitChunk /\ [][NextChunk]_vars

\* The chunks yielded so far, one after the other.
RECURSIVE ChunksOf(_)
ChunksOf(items) ==
  IF items = <<>> THEN <<>>
  ELSE (IF items[1].kind = "chunk" THEN items[1].data ELSE <<>>)
         \o ChunksOf(Tail(items))

Errored == \E i \in 1..Len(ck_items) : ck_items[i].kind = "err"

\* C10: concatenating, in order, the chunks StreamChunker yields gives the
\* input B, whatever sizes the source's fills return: at every moment the
\* chunks yielded plus the chunk being collected are the bytes consumed from
\* the source, and once the input has ended they are all of B.
C10_ChunksReconstructInput ==
  /\ ~Errored => ChunksOf(ck_items) \o ck_data = SubSeq(ck_source, 1, ck_rd)
  /\ (ck_ended /\ ~Errored) => ChunksOf(ck_items) = ck_source

\* C10's case: an input cut into several chunks, one of them at a boundary
\* the hash chose, read through fills that split the chunks.
C10_Witness ==
  /\ ck_ended /\ ~Errored
  /\ Len(ck_source) > 0
  /\ Cardinality({i \in 1..Len(ck_items) : ck_items[i].kind = "chunk"}) >= 2
  /\ \E i \in 1..Len(ck_items) :
       /\ ck_items[i].kind = "chunk"
       /\ i < Len(ck_items) - 1
       /\ Len(ck_items[i].data) < ck_config.max_size

(***************************************************************************)
(* Sizes of the chunks.                                                    *)
(***************************************************************************)
\* The positions in items of the chunks yielded.
ChunkAt(items) == {i \in 1..Len(items) : items[i].kind = "chunk"}

\* Every chunk has 1 .. max_size bytes, and every chunk but the last has
\* min_size bytes at least.
ChunkSizesBounded ==
  \A i \in ChunkAt(ck_items) :
    /\ Len(ck_items[i].data) >= 1
    /\ Len(ck_items[i].data) <= ck_config.max_size
    /\ (\E j \in ChunkAt(ck_items) : j > i)
         => Len(ck_items[i].data) >= ck_config.min_size

\* The sizes are in order: 64 <= min_size <= max_size and
\* avg_size <= max_size.
SizesOrdered ==
  /\ 64 <= ck_config.min_size
  /\ ck_config.min_size <= ck_config.max_size
  /\ ck_config.avg_size <= ck_config.max_size

\* C11 as stated: every non-final chunk yielded has min_size .. max_size
\* bytes and the final chunk 1 .. max_size bytes, for every configuration
\* ChunkerConfig::new accepts.
C11_ChunkSizesBounded == ChunkSizesBounded

\* C11, for configurations whose sizes are in order: every non-final chunk
\* yielded has min_size .. max_size bytes, the final chunk 1 .. max_size
\* bytes, and an input that is empty or ends on a boundary ends the
\* iteration with None, not with an empty chunk.
C11_ChunkSizesBoundedWhenOrdered ==
  SizesOrdered =>
    /\ ChunkSizesBounded
    /\ (ck_ended /\ ~Errored /\ ck_source = <<>>) => ChunkAt(ck_items) = {}

\* C11's case: the input has ended on a boundary after several chunks, and
\* next() has returned None.
C11_Witness ==
  /\ SizesOrdered
  /\ ck_ended /\ ~Errored
  /\ Cardinality(ChunkAt(ck_items)) >= 2
  /\ ck_items[Len(ck_items)].kind = "none"
  /\ ck_items[Len(ck_items) - 1].kind = "chunk"
  /\ Len(ck_items[Len(ck_items) - 1].data) >= ck_config.min_size
  /\ ck_after = 0

(***************************************************************************)
(* The chunks do not depend on the fills.                                  *)
(***************************************************************************)
\* The chunks yielded, in order.
RECURSIVE ChunkSeq(_)
ChunkSeq(items) ==
  IF items = <<>> THEN <<>>
  ELSE (IF items[1].kind = "chunk" THEN <<items[1].data>> ELSE <<>>)
         \o ChunkSeq(Tail(items))

IsPrefix(s, t) == Len(s) <= Len(t) /\ s = SubSeq(t, 1, Len(s))

\* C12: whatever views the fills return, the chunks yielded are the chunks
\* the same configuration yields for the same input read in one fill: at
\* every moment the first of them, and all of them once the input has ended.
C12_ChunksIndependentOfFills ==
  /\ IsPrefix(ChunkSeq(ck_items), ck_expected)
  /\ (ck_ended /\ ~Errored) => ChunkSeq(ck_items) = ck_expected

\* C12's case: a chunk has been yielded and a fill has ended inside the
\* strict phase of the next chunk, which took bytes of several fills.
C12_Witness ==
  /\ ck_pc = "fill"
  /\ Len(ChunkSeq(ck_items)) >= 1
  /\ Len(ck_expected) >= 3
  /\ ck_config.min_size - 1 <= ck_size
  /\ ck_size < ck_config.avg_size - 1
  /\ Len(ck_data) = ck_size

(***************************************************************************)
(* The end of the iteration.                                               *)
(***************************************************************************)
\* In items, an error or a None is followed by None only, and there is one
\* error at most.
OnlyNoneAfterTheEnd ==
  /\ Cardinality({i \in 1..Len(ck_items) : ck_items[i].kind = "err"}) <= 1
  /\ \A i, j \in 1..Len(ck_items) :
       (i < j /\ ck_items[i].kind \in {"err", "none"})
         => ck_items[j].kind = "none"

\* Once ended, a step is a call of next() that returns None without asking
\* the source: nothing is read and fill_buf is not reached.
EndedStep ==
  ck_ended =>
    /\ ck_ended'
    /\ ck_pc' = "idle"
    /\ ck_rd' = ck_rd
    /\ ck_items' = Append(ck_items, Item("none", <<>>))

\* C13: a source error is yielded once and every later next() returns None,
\* after the end of input every later next() returns None too, and in both
\* cases the source is not asked again.
C13_ErrorOnceThenNone ==
  /\ [](OnlyNoneAfterTheEnd /\ (Errored => ck_ended))
  /\ [][EndedStep]_vars

\* C13's case: the source failed after a chunk had been yielded, next()
\* yielded the error, and a later next() has returned.
C13_Witness ==
  /\ Errored
  /\ ck_after >= 1
  /\ ChunkAt(ck_items) # {}
  /\ ck_items[Len(ck_items) - 1].kind = "err"
  /\ ck_items[Len(ck_items)].kind = "none"

(***************************************************************************)
(* PackWriter (pack_writer.rs). Sizes and offsets go beyond 2^31 and are   *)
(* pairs <<hi, lo>> standing for hi * 65536 + lo; usize has 64 bits.       *)
(***************************************************************************)
Num(n) == <<n \div LIMB, n % LIMB>>

NumAdd(a, b) == <<a[1] + b[1] + (a[2] + b[2]) \div LIMB, (a[2] + b[2]) % LIMB>>

NumLess(a, b) == a[1] < b[1] \/ (a[1] = b[1] /\ a[2] < b[2])

\* n * k for a small count n
RECURSIVE NumTimes(_, _)
NumTimes(n, k) == IF n = 0 THEN Num(0) ELSE NumAdd(k, NumTimes(n - 1, k))

\* A conversion that accepts one bit more.
FitsU33(n) == n[1] < 2 * LIMB

\* u32::try_from(n) succeeds
FitsU32(n) == n[1] < LIMB

U32_MAX == <<LIMB - 1, LIMB - 1>>

\* The const parameter HASH_SIZE, and size_of::<u32>().
HASH_SIZE == 32
U32_SIZE == 4

\* Calls of write on one PackWriter, and failures of its underlying writer.
MaxWrites == 2
MaxFailures == 1

\* The hashes (compared as byte arrays) and the lengths of the data written.
Hashes == {1, 2, 3}
DataLens == {Num(0), Num(3), U32_MAX, NumAdd(U32_MAX, Num(1))}
\* How many bytes of its buffer a write_all that fails has written.
FailPrefixes == {0, 1}

InitPack ==
  /\ InitStream
  /\ PadIdle
  /\ ChunkIdle
  /\ AeadIdle
  /\ EncryptorIdle
  /\ IndexIdle
  /\ PackRunsIdle
  /\ ConfigIdle
  /\ CasIdle
  /\ pk_status = "open"
  /\ pk_written_size = Num(0)
  /\ pk_index = <<>>
  /\ pk_out = <<>>
  /\ pk_calls = <<>>
  /\ pk_size = Num(0)

\* A piece of n bytes the underlying writer has received.
Piece(kind, value, n) == [kind |-> kind, value |-> value, n |-> n]

\* writer.write_all of the pieces one after the other, the fail-th of them
\* failing after k of its bytes (fail = 0: none fails). write_all of an
\* empty buffer makes no call and cannot fail.
RECURSIVE WriteAllPieces(_, _, _, _)
WriteAllPieces(o, pieces, fail, k) ==
  IF pieces = <<>> THEN [out |-> o, ok |-> TRUE]
  ELSE IF fail = 1 /\ pieces[1].n # Num(0)
  THEN [out |-> IF k = 0 THEN o
                ELSE Append(o, Piece("part", pieces[1].kind, Num(k))),
        ok |-> FALSE]
  ELSE WriteAllPieces(IF pieces[1].n = Num(0) THEN o ELSE Append(o, pieces[1]),
                      Tail(pieces),
                      IF pieces[1].n = Num(0) THEN fail ELSE fail - 1, k)

\* PackWriter::index_size counting the hashes only.
index_sizeOfHashes(index) == NumTimes(Len(index), Num(HASH_SIZE))

\* PackWriter::index_size
index_size(index) == NumTimes(Len(index), Num(HASH_SIZE + U32_SIZE))

\* PackWriter::size
size(written_size, index) ==
  NumAdd(NumAdd(written_size, index_size(index)), Num(U32_SIZE))

\* The calls the underlying writer has failed.
Failures(cs) == Cardinality({i \in 1..Len(cs) : cs[i].result = "Err"})

Called(hash, len, result) == [hash |-> hash, len |-> len, result |-> result]

\* self.index.push(IndexEntry { hash, offset }), here skipped for a hash
\* the index holds.
IndexPushOnce(index, hash, offset) ==
  IF \E i \in 1..Len(index) : index[i].hash = hash THEN index
  ELSE Append(index, [hash |-> hash, offset |-> offset])

\* self.index.push(IndexEntry { hash, offset })
IndexPush(index, hash, offset) ==
  Append(index, [hash |-> hash, offset |-> offset])

\* The header and the data of a record.
RecordPieces(hash, len) ==
  <<Piece("hash", hash, Num(HASH_SIZE)),
    Piece("data_size", len, Num(U32_SIZE)),
    Piece("data", hash, len)>>

\* PackWriter::write(hash, data), data of len bytes: the fail-th call of the
\* underlying writer's write_all fails after k bytes (fail = 0: none).
PackWrite(hash, len, fail, k) ==
  /\ pk_status = "open"
  /\ Len(pk_calls) < MaxWrites
  /\ IF ~FitsU32(len)
     THEN /\ fail = 0 /\ k = 0
          /\ pk_calls' = Append(pk_calls, Called(hash, len, "InvalidInput"))
          /\ UNCHANGED <<pk_written_size, pk_index, pk_out>>
     ELSE IF ~FitsU32(pk_written_size)
     THEN /\ fail = 0 /\ k = 0
          /\ pk_calls' = Append(pk_calls, Called(hash, len, "FileTooLarge"))
          /\ UNCHANGED <<pk_written_size, pk_index, pk_out>>
     ELSE \E w \in {WriteAllPieces(pk_out, RecordPieces(hash, len), fail, k)} :
            /\ (fail # 0) = ~w.ok
            /\ fail # 0 => Failures(pk_calls) < MaxFailures
            /\ fail = 0 => k = 0
            /\ (fail = 3 /\ k > 0) => NumLess(Num(k), len)
            /\ pk_out' = w.out
            /\ IF w.ok
               THEN /\ pk_written_size' =
                         NumAdd(pk_written_size,
                                NumAdd(Num(HASH_SIZE + U32_SIZE), len))
                    /\ pk_index' = IndexPush(pk_index, hash, pk_written_size)
                    /\ pk_calls' = Append(pk_calls, Called(hash, len, "Ok"))
               ELSE /\ pk_calls' = Append(pk_calls, Called(hash, len, "Err"))
                    /\ UNCHANGED <<pk_written_size, pk_index>>
  /\ UNCHANGED <<pk_status, pk_size>>
  /\ UNCHANGED otherThanPack

\* The orders sort_unstable_by(|a, b| a.hash.cmp(&b.hash)) may leave the
\* index in: ascending by hash, entries of equal hash in any order.
SortedByHash(index) ==
  \A i, j \in 1..Len(index) : i < j => index[i].hash <= index[j].hash


Reorderings(index) ==
  {[i \in 1..Len(index) |-> index[f[i]]] :
     f \in {g \in [1..Len(index) -> 1..Len(index)] :
              \A i, j \in 1..Len(index) : i # j => g[i] # g[j]}}

\* A sort that leaves the index as it is.
sort_unstable_by_hashNot(index) == {index}

sort_unstable_by_hash(index) == {s \in Reorderings(index) : SortedByHash(s)}

\* The index section and the trailer finalize_inner writes.
RECURSIVE IndexPieces(_)
IndexPieces(index) ==
  IF index = <<>> THEN <<>>
  ELSE <<Piece("index_hash", index[1].hash, Num(HASH_SIZE)),
         Piece("index_offset", index[1].offset, Num(U32_SIZE))>>
         \o IndexPieces(Tail(index))

TrailerPiece(index) == Piece("index_size", index_size(index), Num(U32_SIZE))

\* PackWriter::finalize: the fail-th call of the underlying writer fails
\* after k bytes, the flush being the last call (fail = 0: none fails).
\* finalize consumes the PackWriter, whatever it returns.
PackFinalize(fail, k) ==
  /\ pk_status = "open"
  /\ fail \in 0..(2 * Len(pk_index) + 2)
  /\ fail \in {0, 2 * Len(pk_index) + 2} => k = 0
  /\ fail # 0 => Failures(pk_calls) < MaxFailures
  /\ pk_size' = size(pk_written_size, pk_index)
  /\ \E sorted \in sort_unstable_by_hash(pk_index) :
     \E w \in {WriteAllPieces(pk_out,
                              IndexPieces(sorted) \o <<TrailerPiece(sorted)>>,
                              fail, k)} :
       /\ pk_out' = w.out
       /\ pk_index' = sorted
       /\ pk_status' = IF w.ok /\ fail = 0 THEN "finalized" ELSE "failed"
  /\ UNCHANGED <<pk_written_size, pk_calls>>
  /\ UNCHANGED otherThanPack

NextPack ==
  \/ \E hash \in Hashes, len \in DataLens, fail \in 0..3, k \in FailPrefixes :
       PackWrite(hash, len, fail, k)
  \/ \E fail \in 0..(2 * MaxWrites + 2), k \in FailPrefixes :
       PackFinalize(fail, k)

SpecPack == InitPack /\ [][NextPack]_vars

(***************************************************************************)
(* The pack and its index.                                                 *)
(***************************************************************************)
\* The bytes of the first n pieces of out.
RECURSIVE BytesBefore(_, _)
BytesBefore(o, n) ==
  IF n = 0 THEN Num(0) ELSE NumAdd(BytesBefore(o, n - 1), o[n].n)

AllOk == \A i \in 1..Len(pk_calls) : pk_calls[i].result = "Ok"

\* C14: after a sequence of successful write calls, size() read just before
\* finalize is the number of bytes the pack holds after finalize.
C14_SizeIsFinalPackLength ==
  (pk_status = "finalized" /\ AllOk)
    => BytesBefore(pk_out, Len(pk_out)) = pk_size

\* C14's case: two records, one of them with data, and the pack finalized.
C14_Witness ==
  /\ pk_status = "finalized" /\ AllOk
  /\ Len(pk_calls) = 2
  /\ \E i \in 1..2 : pk_calls[i].len = Num(3)
  /\ \E i \in 1..2 : pk_calls[i].len = Num(0)

\* The pieces of out at which a record's header starts.
HeaderAt(o) == {j \in 1..Len(o) : o[j].kind = "hash"}

\* The j-th piece of out starts a whole record for hash.
RecordAt(o, j, hash) ==
  /\ j \in HeaderAt(o)
  /\ o[j].value = hash
  /\ j + 1 <= Len(o)
  /\ o[j + 1].kind = "data_size"

\* C15: after finalize every index entry (hash, offset) points at the
\* record written for that hash: offset is the byte position of the record's
\* header in the pack.
C15_OffsetsPointAtRecords ==
  pk_status = "finalized" =>
    \A i \in 1..Len(pk_index) :
      \E j \in 1..Len(pk_out) :
        /\ RecordAt(pk_out, j, pk_index[i].hash)
        /\ BytesBefore(pk_out, j - 1) = pk_index[i].offset

\* The same when the underlying writer has failed no write call.
C15_OffsetsPointAtRecordsWithoutFailure ==
  (\A i \in 1..Len(pk_calls) : pk_calls[i].result # "Err")
    => C15_OffsetsPointAtRecords

\* The hashes of the index section written to the pack, in order.
WrittenIndex(o) ==
  SelectSeq(o, LAMBDA piece : piece.kind = "index_hash")

\* C16: after finalize the returned index and the index section written to
\* the pack are in ascending order of hash.
C16_IndexAscending ==
  pk_status = "finalized" =>
    /\ SortedByHash(pk_index)
    /\ \A i, j \in 1..Len(WrittenIndex(pk_out)) :
         i < j => WrittenIndex(pk_out)[i].value <= WrittenIndex(pk_out)[j].value
    /\ Len(WrittenIndex(pk_out)) = Len(pk_index)
    /\ \A i \in 1..Len(pk_index) :
         WrittenIndex(pk_out)[i].value = pk_index[i].hash

\* C16's case: records written in descending order of hash, then finalize.
C16_Witness ==
  /\ pk_status = "finalized"
  /\ Len(pk_calls) = 2 /\ AllOk
  /\ pk_calls[1].hash > pk_calls[2].hash

\* The successful write calls.
OkCalls == {i \in 1..Len(pk_calls) : pk_calls[i].result = "Ok"}

\* C17: after finalize the hashes of the index are the hashes passed to the
\* successful write calls, with one entry for each such call.
C17_IndexIsTheSuccessfulWrites ==
  pk_status = "finalized" =>
    /\ {pk_index[i].hash : i \in 1..Len(pk_index)}
         = {pk_calls[i].hash : i \in OkCalls}
    /\ Len(pk_index) = Cardinality(OkCalls)
    /\ \A h \in Hashes :
         Cardinality({i \in 1..Len(pk_index) : pk_index[i].hash = h})
           = Cardinality({i \in OkCalls : pk_calls[i].hash = h})

\* C17's case: the same hash written twice with success, then finalize.
C17_Witness ==
  /\ pk_status = "finalized"
  /\ Len(pk_calls) = 2 /\ AllOk
  /\ pk_calls[1].hash = pk_calls[2].hash

\* The write call a step makes, if it makes one.
WriteCalled == pk_calls' # pk_calls

TheCall == pk_calls'[Len(pk_calls')]

\* A call that fails with InvalidInput or FileTooLarge writes nothing to the
\* underlying writer and leaves written_size, size() and the index as they
\* were.
RejectedChangesNothing ==
  (WriteCalled /\ TheCall.result \in {"InvalidInput", "FileTooLarge"}) =>
    /\ pk_out' = pk_out
    /\ pk_written_size' = pk_written_size
    /\ pk_index' = pk_index
    /\ size(pk_written_size', pk_index') = size(pk_written_size, pk_index)

\* C18 as stated: write fails with InvalidInput when the data length
\* exceeds 2^32 - 1 and with FileTooLarge when the accumulated offset
\* exceeds 2^32 - 1, and on either failure nothing is written or changed.
C18_RejectsLargeLengthAndLargeOffset ==
  [][/\ (WriteCalled /\ NumLess(U32_MAX, TheCall.len))
          => TheCall.result = "InvalidInput"
     /\ (WriteCalled /\ NumLess(U32_MAX, pk_written_size))
          => TheCall.result = "FileTooLarge"
     /\ RejectedChangesNothing]_vars

\* C18, the length being tested first: write fails with InvalidInput when
\* the data length exceeds 2^32 - 1, with FileTooLarge when the length fits
\* and the accumulated offset exceeds 2^32 - 1, and on either failure
\* nothing is written or changed.
C18_RejectsLargeLengthThenLargeOffset ==
  [][/\ (WriteCalled /\ NumLess(U32_MAX, TheCall.len))
          => TheCall.result = "InvalidInput"
     /\ (WriteCalled /\ ~NumLess(U32_MAX, TheCall.len)
           /\ NumLess(U32_MAX, pk_written_size))
          => TheCall.result = "FileTooLarge"
     /\ RejectedChangesNothing]_vars

\* C18's case: a record of 2^32 - 1 bytes of data has taken the offset past
\* 2^32 - 1 and the next write has failed with FileTooLarge.
C18_Witness ==
  /\ Len(pk_calls) = 2
  /\ pk_calls[1].result = "Ok" /\ pk_calls[1].len = U32_MAX
  /\ pk_calls[2].result = "FileTooLarge"
  /\ NumLess(U32_MAX, pk_written_size)
  /\ Len(pk_index) = 1

\* C25 as stated: after any sequence of successful write calls the record
\* bytes of the pack, written_size, are at most 2^32 - 1.
C25_WrittenSizeFitsU32 ==
  (pk_status = "open" /\ AllOk) => FitsU32(pk_written_size)

\* What write does keep: every record starts at a position that fits a
\* u32, so written_size is at most 2^32 - 1 plus one record of at most
\* 36 + 2^32 - 1 bytes.
C25_OffsetsFitU32 ==
  /\ \A i \in 1..Len(pk_index) : FitsU32(pk_index[i].offset)
  /\ ~NumLess(NumAdd(U32_MAX, NumAdd(Num(HASH_SIZE + U32_SIZE), U32_MAX)),
              pk_written_size)

\* One successful write of 2^32 - 1 bytes on a fresh PackWriter.
C25_OneLargeRecord ==
  /\ pk_status = "open" /\ AllOk
  /\ Len(pk_calls) = 1
  /\ pk_written_size = NumAdd(U32_MAX, Num(HASH_SIZE + U32_SIZE))

(***************************************************************************)
(* ChaChaBlake3: the ChaCha20 keystream with a BLAKE3 keyed MAC over the   *)
(* ciphertext (crates/bakpak/src/chacha20_blake3.rs).  usize is taken as   *)
(* 64 bits wide; lengths and positions are pairs as in the pack writer.    *)
(* A buffer of more than MaxExplicit bytes is followed at its first two    *)
(* bytes and its last byte: the keystream acts byte by byte, so the bytes  *)
(* followed change exactly as they do in the whole buffer.  The primitives *)
(* of the chacha20 and blake3 crates are stood in for by small mixing      *)
(* functions of the same arguments.                                        *)
(***************************************************************************)
\* const BLOCK_SIZE
BLOCK_SIZE == 64

\* const MAX_BLOCKS = core::u32::MAX as usize
MAX_BLOCKS == U32_MAX

\* Buffers up to this length are held byte by byte.
MaxExplicit == 3

\* Modulus of the stand-ins for 32-byte keys and tags.
TagMod == 65521

\* n / d and n % d of usize, for a small d
NumDiv(n, d) == <<n[1] \div d, ((n[1] % d) * LIMB + n[2]) \div d>>

NumMod(n, d) == ((n[1] % d) * LIMB + n[2]) % d

\* n - 1, for n > 0
NumPred(n) == IF n[2] > 0 THEN <<n[1], n[2] - 1>> ELSE <<n[1] - 1, LIMB - 1>>

\* The positions of a buffer of len bytes that are followed.
Positions(len) ==
  IF len[1] = 0 /\ len[2] <= MaxExplicit
    THEN SubSeq([i \in 1..MaxExplicit |-> Num(i - 1)], 1, len[2])
    ELSE <<Num(0), Num(1), NumPred(len)>>

\* a | b on bytes: not what apply_keystream does.
RECURSIVE BitOr(_, _)
BitOr(a, b) ==
  IF a = 0 THEN b
  ELSE IF b = 0 THEN a
  ELSE (IF a % 2 = 1 \/ b % 2 = 1 THEN 1 ELSE 0)
         + 2 * BitOr(a \div 2, b \div 2)

\* a ^ b on bytes
RECURSIVE BitXor(_, _)
BitXor(a, b) ==
  IF a = 0 THEN b
  ELSE IF b = 0 THEN a
  ELSE ((a + b) % 2) + 2 * BitXor(a \div 2, b \div 2)

KEY_DERIVATION_CTX == "ChaCha20.Encrypt()"

MAC_DERIVATION_CTX == "BLAKE3-256.KeyedHash()"

\* blake3::derive_key(context, key_material): a key that depends on both.
derive_key(context, key) ==
  (key * 257 + (IF context = KEY_DERIVATION_CTX THEN 7919 ELSE 104729) + 11)
    % TagMod

\* The keystream byte of ChaCha20 under (key, nonce) at a position: it
\* depends on the key, the nonce, the block counter and the place in the
\* block.
KeystreamByte(k, a_nonce, pos) ==
  LET block == NumDiv(pos, BLOCK_SIZE)
      off == NumMod(pos, BLOCK_SIZE)
      x == (k * 31 + a_nonce * 17 + block[1] * 7 + block[2] * 13 + off * 101
              + 89) % TagMod
  IN ((x \div 256) + x * 5 + 1) % (U8_MAX + 1)

\* C::new_from_slices(key, nonce) then cipher.apply_keystream(buffer)
apply_keystream(k, a_nonce, buffer) ==
  IF buffer.bytes = <<>> THEN buffer
  ELSE [buffer EXCEPT !.bytes =
          [i \in 1..Len(buffer.bytes) |->
             BitXor(buffer.bytes[i],
                    KeystreamByte(k, a_nonce, Positions(buffer.len)[i]))]]

\* blake3::Hasher::update over bytes
RECURSIVE HasherUpdate(_, _)
HasherUpdate(h, bytes) ==
  IF bytes = <<>> THEN h
  ELSE HasherUpdate((h * 251 + bytes[1] + 1) % TagMod, Tail(bytes))

\* The 12 bytes of a nonce
NonceBytes(a_nonce) ==
  <<a_nonce % (U8_MAX + 1), 0, 0, 0, 0, 0, 0, 0, 0, 0, 0, 0>>

\* u64::to_le_bytes of a length
to_le_bytes(n) ==
  <<n[2] % 256, n[2] \div 256, n[1] % 256, (n[1] \div 256) % 256,
    (n[1] \div LIMB) % 256, (n[1] \div LIMB) \div 256, 0, 0>>

\* ChaChaBlake3::compute_tag.  u64::try_from of a usize does not fail.
compute_tag(key, a_nonce, associated_data, ciphertext) ==
  LET mac_key == derive_key(MAC_DERIVATION_CTX, key)
      h1 == HasherUpdate(mac_key, NonceBytes(a_nonce))
      h2 == HasherUpdate(h1, associated_data)
      h3 == HasherUpdate(h2, ciphertext.bytes)
      h4 == HasherUpdate(h3, to_le_bytes(Num(Len(associated_data))))
  IN HasherUpdate(h4, to_le_bytes(ciphertext.len))

\* A length test that lets every length through.
TooLongNever(len) == FALSE

\* buffer.len() / BLOCK_SIZE >= MAX_BLOCKS
TooLong(len) == ~NumLess(NumDiv(len, BLOCK_SIZE), MAX_BLOCKS)

\* A comparison that finds every pair of tags equal.
TagsEqualAlways(computed_tag, tag) == TRUE

\* computed_tag == **tag
TagsEqual(computed_tag, tag) == computed_tag = tag

AeadKeys == {0, 7}

AeadNonces == {0, 1}

AeadAds == {<<>>, <<9, 200>>}

\* 0, 1, 3, 65, then 64 * MAX_BLOCKS - 1, 64 * MAX_BLOCKS and 2^38
AeadLens ==
  {Num(0), Num(1), Num(3), Num(65),
   <<4194303, 65471>>, <<4194303, 65472>>, <<4194304, 0>>}

AeadSeeds == {0, 200}

\* A plaintext buffer of len bytes.
AeadBuffer(len, seed) ==
  [len |-> len,
   bytes |-> IF len = Num(0) THEN <<>>
             ELSE [i \in 1..Len(Positions(len)) |->
                     (seed + Positions(len)[i][2] * 37 + Positions(len)[i][1])
                       % (U8_MAX + 1)]]

InitAead ==
  /\ InitStream
  /\ PadIdle
  /\ ChunkIdle
  /\ PackIdle
  /\ EncryptorIdle
  /\ IndexIdle
  /\ PackRunsIdle
  /\ ConfigIdle
  /\ CasIdle
  /\ ae_pc = "ready"
  /\ ae_key \in AeadKeys
  /\ ae_nonce \in AeadNonces
  /\ ae_ad \in AeadAds
  /\ ae_plain \in {AeadBuffer(len, seed) : len \in AeadLens, seed \in AeadSeeds}
  /\ ae_buffer = ae_plain
  /\ ae_tag = NoTag
  /\ ae_given = NothingGiven
  /\ ae_computed = NoTag
  /\ ae_before = EmptyBuffer
  /\ ae_tampered = FALSE
  /\ ae_result = "none"

\* ChaChaBlake3::encrypt_in_place_detached
Encrypt ==
  /\ ae_pc = "ready"
  /\ IF TooLong(ae_buffer.len)
       THEN /\ ae_pc' = "enc_failed"
            /\ ae_result' = "Err"
            /\ UNCHANGED <<ae_buffer, ae_tag>>
       ELSE \E ct \in {apply_keystream(derive_key(KEY_DERIVATION_CTX, ae_key),
                                       ae_nonce, ae_buffer)} :
              /\ ae_buffer' = ct
              /\ ae_tag' = compute_tag(ae_key, ae_nonce, ae_ad, ct)
              /\ ae_pc' = "encrypted"
              /\ ae_result' = "Ok"
  /\ UNCHANGED <<ae_key, ae_nonce, ae_ad, ae_plain, ae_given, ae_computed,
                 ae_before, ae_tampered>>
  /\ UNCHANGED otherThanAead

\* The owner of the buffer flips one bit of it between the two calls.
Tamper(i, bit) ==
  /\ ae_pc = "encrypted"
  /\ ~ae_tampered
  /\ i \in 1..Len(ae_buffer.bytes)
  /\ ae_buffer' = [ae_buffer EXCEPT !.bytes[i] = BitXor(@, bit)]
  /\ ae_tampered' = TRUE
  /\ UNCHANGED <<ae_pc, ae_key, ae_nonce, ae_ad, ae_plain, ae_tag, ae_given,
                 ae_computed, ae_before, ae_result>>
  /\ UNCHANGED otherThanAead

\* A tag other than t.
OtherTag(t) == (t + 1) % TagMod

\* ChaChaBlake3::decrypt_in_place_detached, up to its length test
DecryptEnter(a_nonce, associated_data, tag) ==
  /\ ae_pc \in {"ready", "encrypted", "enc_failed"}
  /\ ae_given' = [nonce |-> a_nonce, ad |-> associated_data, tag |-> tag]
  /\ ae_before' = ae_buffer
  /\ ae_computed' = NoTag
  /\ IF TooLong(ae_buffer.len)
       THEN ae_pc' = "dec_err" /\ ae_result' = "Err"
       ELSE ae_pc' = "dec_entered" /\ ae_result' = "none"
  /\ UNCHANGED <<ae_key, ae_nonce, ae_ad, ae_plain, ae_buffer, ae_tag,
                 ae_tampered>>
  /\ UNCHANGED otherThanAead

\* let computed_tag = self.compute_tag(nonce, associated_data, buffer)?
DecryptComputeTag ==
  /\ ae_pc = "dec_entered"
  /\ ae_computed' = compute_tag(ae_key, ae_given.nonce, ae_given.ad, ae_buffer)
  /\ ae_pc' = "dec_tagged"
  /\ UNCHANGED <<ae_key, ae_nonce, ae_ad, ae_plain, ae_buffer, ae_tag,
                 ae_given, ae_before, ae_tampered, ae_result>>
  /\ UNCHANGED otherThanAead

\* The branch of decrypt_in_place_detached taken when the tags are equal.
DecryptApply ==
  /\ ae_pc = "dec_tagged"
  /\ TagsEqual(ae_computed, ae_given.tag)
  /\ ae_buffer' = apply_keystream(derive_key(KEY_DERIVATION_CTX, ae_key),
                                  ae_given.nonce, ae_buffer)
  /\ ae_pc' = "dec_ok"
  /\ ae_result' = "Ok"
  /\ UNCHANGED <<ae_key, ae_nonce, ae_ad, ae_plain, ae_tag, ae_given,
                 ae_computed, ae_before, ae_tampered>>
  /\ UNCHANGED otherThanAead

\* The branch of decrypt_in_place_detached taken when the tags differ.
DecryptReject ==
  /\ ae_pc = "dec_tagged"
  /\ ~TagsEqual(ae_computed, ae_given.tag)
  /\ ae_pc' = "dec_err"
  /\ ae_result' = "Err"
  /\ UNCHANGED <<ae_key, ae_nonce, ae_ad, ae_plain, ae_buffer, ae_tag,
                 ae_given, ae_computed, ae_before, ae_tampered>>
  /\ UNCHANGED otherThanAead

NextAead ==
  \/ Encrypt
  \/ \E i \in 1..MaxExplicit, bit \in {1, 128} : Tamper(i, bit)
  \/ \E a_nonce \in AeadNonces, ad \in AeadAds,
        tag \in {ae_tag, OtherTag(ae_tag)} : DecryptEnter(a_nonce, ad, tag)
  \/ DecryptComputeTag
  \/ DecryptApply
  \/ DecryptReject

SpecAead == InitAead /\ [][NextAead]_vars

\* decrypt has returned
Decrypted == ae_pc \in {"dec_ok", "dec_err"}

\* decrypt was given the buffer encrypt left, with the nonce and associated
\* data of encrypt and the tag encrypt returned
DecryptOfEncrypt ==
  /\ Decrypted
  /\ ae_tag # NoTag
  /\ ~ae_tampered
  /\ ae_given = [nonce |-> ae_nonce, ad |-> ae_ad, tag |-> ae_tag]

\* encrypt, then decrypt of what it left, both succeed and the buffer is as
\* it was before encrypt
RoundTrips ==
  /\ ae_pc # "enc_failed"
  /\ DecryptOfEncrypt => ae_pc = "dec_ok" /\ ae_result = "Ok"
                           /\ ae_buffer = ae_plain

\* C19 as stated: every plaintext P with |P| / 64 < 2^32 makes the round
\* trip: encrypt in place, then decrypt with the same nonce, associated
\* data and the returned tag, succeeds and restores P.
C19_RoundTripBelowTwoTo32Blocks ==
  (ae_pc # "ready" /\ NumLess(NumDiv(ae_plain.len, BLOCK_SIZE), <<LIMB, 0>>))
    => RoundTrips

\* C19 with the limit of the code: every plaintext P with
\* |P| / 64 < 2^32 - 1 makes the round trip.
C19_RoundTripBelowMaxBlocks ==
  (ae_pc # "ready" /\ NumLess(NumDiv(ae_plain.len, BLOCK_SIZE), MAX_BLOCKS))
    => RoundTrips

\* C19 witness: a plaintext of 65 bytes (two blocks) was encrypted to
\* something else and decrypt restored it.
C19_Witness ==
  /\ DecryptOfEncrypt
  /\ ae_pc = "dec_ok"
  /\ ae_plain.len = Num(65)
  /\ ae_before.bytes # ae_plain.bytes
  /\ ae_buffer = ae_plain

\* The phases of one decrypt call
InDecrypt == ae_pc \in {"dec_entered", "dec_tagged", "dec_ok", "dec_err"}

\* Once computed, the tag of decrypt is the tag of the buffer as it was
\* given, and until the comparison the buffer is as it was given; after a
\* failure it still is.
TagOfCiphertextFirst ==
  /\ ae_pc \in {"dec_entered", "dec_tagged", "dec_err"}
       => ae_buffer = ae_before
  /\ (InDecrypt /\ ae_computed # NoTag)
       => ae_computed = compute_tag(ae_key, ae_given.nonce, ae_given.ad,
                                    ae_before)
  /\ (ae_pc = "dec_tagged" \/ ae_pc = "dec_ok") => ae_computed # NoTag
  /\ (ae_pc = "dec_err" /\ ae_computed # NoTag)
       => ae_computed # ae_given.tag
  /\ ae_pc = "dec_err" => ae_result = "Err"

\* A step of decrypt changes the buffer only after the tags compared
\* equal, and a step after unequal tags fails.
KeystreamAfterEqualTags ==
  /\ (InDecrypt /\ ae_buffer' # ae_buffer)
       => ae_pc = "dec_tagged" /\ ae_computed = ae_given.tag
  /\ (ae_pc = "dec_tagged" /\ ae_computed # ae_given.tag)
       => ae_pc' = "dec_err" /\ ae_buffer' = ae_buffer

\* C20: decrypt computes the tag over the ciphertext before it touches the
\* buffer; when the given tag differs from the computed one it fails and
\* the buffer is unchanged; the keystream is applied only after the tags
\* compared equal.
C20_TagBeforeKeystream ==
  /\ []TagOfCiphertextFirst
  /\ [][KeystreamAfterEqualTags]_vars

\* C20 witness: decrypt of a ciphertext of 3 bytes with a tag other than
\* the computed one has failed and the buffer still is the ciphertext.
C20_Witness ==
  /\ ae_pc = "dec_err"
  /\ ae_computed # NoTag
  /\ ae_computed # ae_given.tag
  /\ ae_buffer = ae_before
  /\ ae_buffer.len = Num(3)
  /\ ae_buffer.bytes # ae_plain.bytes


\* encrypt returns on this step
EncryptReturns == ae_pc = "ready" /\ ae_pc' \in {"encrypted", "enc_failed"}

\* encrypt rejects exactly the buffers of at least blocks whole blocks, and
\* leaves a rejected buffer as it is
RejectsFrom(blocks) ==
  EncryptReturns =>
    /\ (ae_pc' = "enc_failed")
         <=> ~NumLess(NumDiv(ae_buffer.len, BLOCK_SIZE), blocks)
    /\ ae_pc' = "enc_failed" => ae_result' = "Err" /\ ae_buffer' = ae_buffer
    /\ ae_pc' = "encrypted" => ae_result' = "Ok"

\* C21 as stated: encrypt rejects a buffer exactly when
\* floor(len / 64) >= 2^32, and a rejected buffer is unchanged.
C21_RejectsFromTwoTo32Blocks == [][RejectsFrom(<<LIMB, 0>>)]_vars

\* C21 with the limit of the code: encrypt rejects a buffer exactly when
\* floor(len / 64) >= 2^32 - 1, and a rejected buffer is unchanged.
C21_RejectsFromMaxBlocks == [][RejectsFrom(MAX_BLOCKS)]_vars

\* C21 witness: a buffer of 64 * (2^32 - 1) bytes was rejected and is as it
\* was.
C21_Witness ==
  /\ ae_pc = "enc_failed"
  /\ ae_result = "Err"
  /\ ae_plain.len = <<4194303, 65472>>
  /\ ae_buffer = ae_plain

\* A buffer one byte short of the limit was accepted.
C21_AcceptedBelowLimit ==
  /\ ae_pc = "encrypted"
  /\ ae_plain.len = <<4194303, 65471>>
  /\ ae_buffer.bytes # ae_plain.bytes


(***************************************************************************)
(* Encryptor::with_random: the archive header for a list of recipients     *)
(* (crates/bakpak/src/encryptor.rs).  A recipient list is held as runs of  *)
(* equal public keys; the loop over the recipients appends the same bytes  *)
(* for equal keys, so a run gives one piece repeated `times` times.  The   *)
(* keys, ids and MACs in the header are held as terms naming what they     *)
(* were computed from.                                                     *)
(***************************************************************************)
\* Bytes of a key, a public key, a BLAKE3 output
KEY_SIZE == 32

\* Bytes ChaCha20Poly1305 adds to what it encrypts
POLY1305_TAG_SIZE == 16

\* Bytes of BAKPAK_MAGIC
MAGIC_SIZE == 4

\* Bytes of the recipient count (u16)
COUNT_SIZE == 2

RecipientKeys == {1, 2}

RunCounts == {1, 2, U16_MAX - 1, U16_MAX, U16_MAX + 1}

FileKeys == {11, 12}

Run(key, count) == [key |-> key, count |-> count]

\* Lists of no recipient, of one run and of two runs.
RecipientLists ==
  {<<>>}
  \cup {<<Run(k, c)>> : k \in RecipientKeys, c \in RunCounts}
  \cup {<<Run(k1, c1), Run(k2, c2)>> :
          k1 \in RecipientKeys, c1 \in RunCounts,
          k2 \in RecipientKeys, c2 \in RunCounts}

\* recipients.len()
RECURSIVE RecipientsLen(_)
RecipientsLen(recipients) ==
  IF recipients = <<>> THEN 0
  ELSE recipients[1].count + RecipientsLen(Tail(recipients))

\* n bytes appended to the header `times` times over.
HeaderPiece(kind, value, n, times) ==
  [kind |-> kind, value |-> value, n |-> n, times |-> times]

\* header.len()
RECURSIVE HeaderLen(_)
HeaderLen(header) ==
  IF header = <<>> THEN 0
  ELSE header[1].n * header[1].times + HeaderLen(Tail(header))

\* let header_size = ..
header_size(len) ==
  MAGIC_SIZE + KEY_SIZE + KEY_SIZE + POLY1305_TAG_SIZE + COUNT_SIZE
    + len * (KEY_SIZE + KEY_SIZE + POLY1305_TAG_SIZE) + KEY_SIZE

\* recipients.len() as u16
AsU16(n) == n % (U16_MAX + 1)

\* What the loop over the recipients appends.
RECURSIVE RecipientPieces(_, _)
RecipientPieces(recipients, file_key) ==
  IF recipients = <<>> THEN <<>>
  ELSE <<HeaderPiece("recipient_id", <<"keyed_hash", recipients[1].key>>,
                     KEY_SIZE, recipients[1].count),
         HeaderPiece("wrapped_key", <<"wrap", recipients[1].key, file_key>>,
                     KEY_SIZE + POLY1305_TAG_SIZE, recipients[1].count)>>
         \o RecipientPieces(Tail(recipients), file_key)

\* The header before the header mac.
HeaderBody(recipients, file_key) ==
  <<HeaderPiece("magic", "bak0", MAGIC_SIZE, 1),
    HeaderPiece("ephemeral_share", "public", KEY_SIZE, 1),
    HeaderPiece("sender_id", <<"sender", file_key>>,
                KEY_SIZE + POLY1305_TAG_SIZE, 1),
    HeaderPiece("recipient_count", AsU16(RecipientsLen(recipients)),
                COUNT_SIZE, 1)>>
    \o RecipientPieces(recipients, file_key)

\* The header with its mac over all that precedes.
BuildHeader(recipients, file_key) ==
  Append(HeaderBody(recipients, file_key),
         HeaderPiece("header_mac",
                     <<"keyed_hash", file_key,
                       HeaderBody(recipients, file_key)>>,
                     KEY_SIZE, 1))

InitEncryptor ==
  /\ InitStream
  /\ PadIdle
  /\ ChunkIdle
  /\ PackIdle
  /\ AeadIdle
  /\ IndexIdle
  /\ PackRunsIdle
  /\ ConfigIdle
  /\ CasIdle
  /\ en_pc = "ready"
  /\ en_recipients \in RecipientLists
  /\ en_file_key = 0
  /\ en_header = <<>>
  /\ en_header_size = 0
  /\ en_result = "none"

\* recipients.len() > u16::MAX as usize
TooMany(len) == len > U16_MAX

\* Encryptor::with_random, the csprng giving file_key.  The encryptions of
\* 32 bytes do not fail.
WithRandom(file_key) ==
  /\ en_pc = "ready"
  /\ en_file_key' = file_key
  /\ IF TooMany(RecipientsLen(en_recipients))
       THEN /\ en_pc' = "rejected"
            /\ en_result' = "TooManyRecipients"
            /\ UNCHANGED <<en_header, en_header_size>>
       ELSE \E h \in {BuildHeader(en_recipients, file_key)} :
              /\ en_header_size' = header_size(RecipientsLen(en_recipients))
              /\ en_header' = h
              /\ IF debug_assertions /\ HeaderLen(h) # en_header_size'
                   THEN en_pc' = "panicked" /\ en_result' = "panic"
                   ELSE en_pc' = "built" /\ en_result' = "Ok"
  /\ UNCHANGED en_recipients
  /\ UNCHANGED otherThanEncryptor

NextEncryptor == \E file_key \in FileKeys : WithRandom(file_key)

SpecEncryptor == InitEncryptor /\ [][NextEncryptor]_vars

\* The recipient_count field of a header
CountField(header) == header[4]

\* C22 as stated: the header for N recipients is 4 + 4 + 32 + N * (32 + 32
\* + 32) + 32 + 32 + 32 bytes long, and that is the precomputed header_size.
C22_HeaderLengthOfLaterFormat ==
  en_pc = "built"
    => /\ HeaderLen(en_header)
            = 4 + 4 + 32 + RecipientsLen(en_recipients) * (32 + 32 + 32)
                + 32 + 32 + 32
       /\ HeaderLen(en_header) = en_header_size

\* The part of C22 that holds: the header built has the precomputed length,
\* 4 + 32 + 48 + 2 + N * 80 + 32 bytes, and with_random does not panic.
C22_HeaderLengthIsHeaderSize ==
  /\ en_pc # "panicked"
  /\ en_pc = "built"
       => /\ HeaderLen(en_header) = en_header_size
          /\ en_header_size = 118 + 80 * RecipientsLen(en_recipients)

\* A header for three recipients in two runs was built.
C22_Built ==
  /\ en_pc = "built"
  /\ Len(en_recipients) = 2
  /\ RecipientsLen(en_recipients) = 3
  /\ en_header_size = 358

\* C23 as stated: construction fails with TooManyRecipients exactly when
\* the list has more than 2^32 - 1 entries, and the recipient_count written
\* is the length of the list.
C23_RejectsAboveU32Max ==
  en_pc # "ready"
    => /\ (en_result = "TooManyRecipients")
            <=> NumLess(U32_MAX, Num(RecipientsLen(en_recipients)))
       /\ en_pc = "built"
            => CountField(en_header).value = RecipientsLen(en_recipients)

\* What holds instead of C23: the limit is 2^16 - 1 entries, and the
\* recipient_count written, of 2 bytes, is the length of the list.
C23_RejectsAboveU16Max ==
  en_pc # "ready"
    => /\ (en_result = "TooManyRecipients")
            <=> RecipientsLen(en_recipients) > U16_MAX
       /\ en_pc = "built"
            => /\ CountField(en_header).kind = "recipient_count"
               /\ CountField(en_header).n = COUNT_SIZE
               /\ CountField(en_header).value = RecipientsLen(en_recipients)

\* A list of 2^16 recipients was rejected, and one of 2^16 - 1 accepted.
C23_Rejected65536 ==
  /\ en_pc = "rejected"
  /\ RecipientsLen(en_recipients) = U16_MAX + 1


(***************************************************************************)
(* IndexWriter: the index over the packs                                   *)
(* (crates/bakup/src/index/index_writer.rs).                               *)
(***************************************************************************)
\* Entries one IndexWriter accumulates.
MaxEntries == 3

PackIds == {1, 2}

IndexHashes == {1, 2, 3}

IndexOffsets == {0, 36}

\* The index of a pack, as PackWriter::finalize returns it: its records
\* lie at different offsets.
PackIndices ==
  LET entries == {[hash |-> h, offset |-> o] :
                    h \in IndexHashes, o \in IndexOffsets}
  IN {<<>>} \cup {<<e>> : e \in entries}
            \cup {p \in entries \X entries : p[1].offset # p[2].offset}

\* IndexEntry::size
IndexEntrySize == HASH_SIZE + HASH_SIZE + U32_SIZE

\* IndexWriter::size
IndexWriterSize(index) == Len(index) * IndexEntrySize

InitIndex ==
  /\ InitStream
  /\ PadIdle
  /\ ChunkIdle
  /\ PackIdle
  /\ AeadIdle
  /\ EncryptorIdle
  /\ PackRunsIdle
  /\ ConfigIdle
  /\ CasIdle
  /\ ix_pc = "open"
  /\ ix_index = <<>>
  /\ ix_out = <<>>
  /\ ix_added = <<>>
  /\ ix_size = 0

\* The entries of a pack, each with the id of the pack.
EntriesOfPack(pack_id, indices) ==
  IF indices = <<>> THEN <<>>
  ELSE [i \in 1..Len(indices) |->
          [hash |-> indices[i].hash, pack_id |-> pack_id,
           offset |-> indices[i].offset]]

\* IndexWriter::extend_from_pack
ExtendFromPack(pack_id, indices) ==
  /\ ix_pc = "open"
  /\ Len(ix_index) + Len(indices) <= MaxEntries
  /\ ix_index' = ix_index \o EntriesOfPack(pack_id, indices)
  /\ ix_added' = ix_added \o EntriesOfPack(pack_id, indices)
  /\ UNCHANGED <<ix_pc, ix_out, ix_size>>
  /\ UNCHANGED otherThanIndex

\* e put into a sorted index, after the entries that do not compare greater.
RECURSIVE InsertByHash(_, _)
InsertByHash(sorted, e) ==
  IF sorted = <<>> THEN <<e>>
  ELSE IF sorted[Len(sorted)].hash <= e.hash THEN Append(sorted, e)
  ELSE Append(InsertByHash(SubSeq(sorted, 1, Len(sorted) - 1), e),
              sorted[Len(sorted)])

\* A sort that leaves the index as it is.
par_sort_by_hashNot(index) == index

\* self.index.par_sort_by(|a, b| a.hash.cmp(&b.hash)): a stable sort
RECURSIVE par_sort_by_hash(_)
par_sort_by_hash(index) ==
  IF index = <<>> THEN <<>>
  ELSE InsertByHash(par_sort_by_hash(SubSeq(index, 1, Len(index) - 1)),
                    index[Len(index)])

\* What the loop of IndexWriter::write gives to write_all.
RECURSIVE IndexRecordPieces(_)
IndexRecordPieces(index) ==
  IF index = <<>> THEN <<>>
  ELSE <<Piece("hash", index[1].hash, Num(HASH_SIZE)),
         Piece("pack_id", index[1].pack_id, Num(HASH_SIZE)),
         Piece("offset", index[1].offset, Num(U32_SIZE))>>
         \o IndexRecordPieces(Tail(index))

\* IndexWriter::write to a writer that has received nothing yet: the
\* fail-th call of the writer fails, having taken no byte, the flush being
\* the last call (fail = 0: none fails).  An IndexWriter is followed up to
\* the return of its first write.
IndexWrite(fail) ==
  /\ ix_pc = "open"
  /\ fail \in 0..(3 * Len(ix_index) + 1)
  /\ ix_size' = IndexWriterSize(ix_index)
  /\ \E sorted \in {par_sort_by_hash(ix_index)} :
     \E w \in {WriteAllPieces(<<>>, IndexRecordPieces(sorted), fail, 0)} :
       /\ ix_out' = w.out
       /\ ix_index' = sorted
       /\ ix_pc' = IF w.ok /\ fail = 0 THEN "written" ELSE "failed"
  /\ UNCHANGED ix_added
  /\ UNCHANGED otherThanIndex

NextIndex ==
  \/ \E pack_id \in PackIds, indices \in PackIndices :
       ExtendFromPack(pack_id, indices)
  \/ \E fail \in 0..(3 * MaxEntries + 1) : IndexWrite(fail)

SpecIndex == InitIndex /\ [][NextIndex]_vars

\* The i-th record of an output of whole records
RecordOf(o, i) ==
  [hash |-> o[3 * i - 2].value, pack_id |-> o[3 * i - 1].value,
   offset |-> o[3 * i].value]

\* How often e occurs in a sequence
Occurrences(seq, e) == Cardinality({i \in 1..Len(seq) : seq[i] = e})

\* C24: IndexWriter::write emits one record hash || pack_id || LE32 offset
\* of 2 * HASH_SIZE + 4 bytes per accumulated entry and nothing else, in
\* ascending order of hash; the output length is size() and a multiple of
\* the entry size; each entry keeps the pack_id and offset it was added
\* with.
C24_IndexFileIsTheSortedEntries ==
  ix_pc = "written" =>
    /\ Len(ix_out) = 3 * Len(ix_added)
    /\ \A i \in 1..Len(ix_added) :
         /\ ix_out[3 * i - 2].kind = "hash"
         /\ ix_out[3 * i - 2].n = Num(HASH_SIZE)
         /\ ix_out[3 * i - 1].kind = "pack_id"
         /\ ix_out[3 * i - 1].n = Num(HASH_SIZE)
         /\ ix_out[3 * i].kind = "offset"
         /\ ix_out[3 * i].n = Num(U32_SIZE)
         /\ Occurrences(ix_added, RecordOf(ix_out, i))
              = Cardinality({j \in 1..Len(ix_added) :
                               RecordOf(ix_out, j) = RecordOf(ix_out, i)})
    /\ \A i, j \in 1..Len(ix_added) :
         i < j => RecordOf(ix_out, i).hash <= RecordOf(ix_out, j).hash
    /\ BytesBefore(ix_out, Len(ix_out)) = Num(ix_size)
    /\ ix_size = Len(ix_added) * (2 * HASH_SIZE + 4)
    /\ ix_size % IndexEntrySize = 0

\* C24 witness: three entries of two packs, added in descending order of
\* hash, were written.
C24_Witness ==
  /\ ix_pc = "written"
  /\ Len(ix_added) = 3
  /\ ix_added[1].hash > ix_added[2].hash
  /\ ix_added[2].hash > ix_added[3].hash
  /\ ix_added[1].pack_id # ix_added[3].pack_id
  /\ Len(ix_out) = 9

\* The bytes IndexWriter::write gives a writer that takes them all, for the
\* entries accumulated in the order of index.
WrittenFor(index) == IndexRecordPieces(par_sort_by_hash(index))

\* No two of the entries have the same hash.
HashesDiffer(index) ==
  \A i, j \in 1..Len(index) : i # j => index[i].hash # index[j].hash

\* C32 as stated: the bytes IndexWriter::write writes are determined by the
\* set of accumulated (hash, pack_id, offset) entries alone: accumulated in
\* any other order, by extend_from_pack calls made in another order, the
\* same entries give the same bytes, entries of equal hash included.
C32_OutputDeterminedByEntrySet ==
  (ix_pc = "written" /\ ix_added # <<>>) =>
    \A other \in Reorderings(ix_added) : WrittenFor(other) = ix_out

\* What the code keeps: entries whose hashes all differ give the same bytes
\* in whatever order they were accumulated, and the stable sort gives
\* entries of equal hash in the order they were accumulated.
C32_OutputDeterminedWhenHashesDiffer ==
  (ix_pc = "written" /\ ix_added # <<>>) =>
    /\ ix_out = WrittenFor(ix_added)
    /\ HashesDiffer(ix_added) =>
         \A other \in Reorderings(ix_added) : WrittenFor(other) = ix_out
    /\ \A i, j \in 1..Len(ix_added) :
         (i < j /\ ix_added[i].hash = ix_added[j].hash) =>
           \E k, l \in 1..Len(ix_added) :
              /\ k < l
              /\ RecordOf(ix_out, k) = ix_added[i]
              /\ RecordOf(ix_out, l) = ix_added[j]

\* Two packs hold a blob of the same hash; the index written after
\* extend_from_pack for pack 2 and then pack 1 lists pack 2 first, and
\* would list pack 1 first had the calls been made the other way round.
C32_EqualHashesInCallOrder ==
  /\ ix_pc = "written"
  /\ Len(ix_added) = 2
  /\ ix_added[1].hash = ix_added[2].hash
  /\ ix_added[1].pack_id = 2
  /\ ix_added[2].pack_id = 1
  /\ RecordOf(ix_out, 1).pack_id = 2
  /\ WrittenFor(<<ix_added[2], ix_added[1]>>) # ix_out


(***************************************************************************)
(* PackWriter by its sizes: written_size and the number of index entries   *)
(* over runs of write calls that all return Ok (src/pack/pack_writer.rs).  *)
(* A run of `times` calls with data of the same length is `times` steps of *)
(* PackWriter::write taken at once; usize is taken as 64 bits wide.        *)
(***************************************************************************)
\* Runs of write calls made on one PackWriter.
MaxRuns == 3

\* 1, 2, 119304646 and 119304647 calls: 36 * 119304647 = 2^32 - 4.
RunTimes == {Num(1), Num(2), <<1820, 29126>>, <<1820, 29127>>}

\* Lengths of the data of the calls of a run.
RunLens == {Num(0), Num(3), U32_MAX}

\* n * c for a small c
NumScale(n, c) == <<n[1] * c + (n[2] * c) \div LIMB, (n[2] * c) % LIMB>>

\* The record bytes of a run: times * (HASH_SIZE + 4 + len)
RunBytes(times, len) ==
  IF times = Num(1) THEN NumAdd(Num(HASH_SIZE + U32_SIZE), len)
  ELSE NumScale(times, HASH_SIZE + U32_SIZE + len[2])

InitPackRuns ==
  /\ InitStream
  /\ PadIdle
  /\ ChunkIdle
  /\ PackIdle
  /\ AeadIdle
  /\ EncryptorIdle
  /\ IndexIdle
  /\ ConfigIdle
  /\ CasIdle
  /\ pr_status = "open"
  /\ pr_written_size = Num(0)
  /\ pr_entries = Num(0)
  /\ pr_runs = <<>>

\* `times` calls of PackWriter::write with data of len bytes that all return
\* Ok: the length fits a u32, and so does written_size before each call, the
\* last one included.
PackWriteRun(times, len) ==
  /\ pr_status = "open"
  /\ Len(pr_runs) < MaxRuns
  /\ times # Num(1) => len[1] = 0
  /\ FitsU32(len)
  /\ FitsU32(NumAdd(pr_written_size, RunBytes(NumPred(times), len)))
  /\ pr_written_size' = NumAdd(pr_written_size, RunBytes(times, len))
  /\ pr_entries' = NumAdd(pr_entries, times)
  /\ pr_runs' = Append(pr_runs, [times |-> times, len |-> len])
  /\ UNCHANGED pr_status
  /\ UNCHANGED otherThanPackRuns

\* u32::try_from(self.index_size()) of finalize_inner succeeds
IndexSizeFits(entries) == FitsU32(NumScale(entries, HASH_SIZE + U32_SIZE))

\* PackWriter::finalize: the underlying writer fails on the index (fail),
\* or the index is written and then its size converted for the trailer.
PackFinalizeRuns(fail) ==
  /\ pr_status = "open"
  /\ fail => pr_entries # Num(0)
  /\ pr_status' = IF fail THEN "failed"
                  ELSE IF IndexSizeFits(pr_entries) THEN "finalized"
                  ELSE "panicked"
  /\ UNCHANGED <<pr_written_size, pr_entries, pr_runs>>
  /\ UNCHANGED otherThanPackRuns

NextPackRuns ==
  \/ \E times \in RunTimes, len \in RunLens : PackWriteRun(times, len)
  \/ \E fail \in BOOLEAN : PackFinalizeRuns(fail)

SpecPackRuns == InitPackRuns /\ [][NextPackRuns]_vars

\* C26 as stated: after write calls that all succeeded the index size,
\* entries * (HASH_SIZE + 4), fits a u32, so finalize does not panic.
C26_IndexSizeFitsU32 ==
  /\ pr_status = "open" => IndexSizeFits(pr_entries)
  /\ pr_status # "panicked"

\* What holds: the index size is at most 2^32 - 1 + HASH_SIZE + 4.
C26_IndexSizeWithinOneEntry ==
  ~NumLess(NumAdd(U32_MAX, Num(HASH_SIZE + U32_SIZE)),
           NumScale(pr_entries, HASH_SIZE + U32_SIZE))

\* finalize panicked after 119304647 + 1 writes of empty data.
C26_Panicked ==
  /\ pr_status = "panicked"
  /\ pr_runs = <<[times |-> <<1820, 29127>>, len |-> Num(0)],
                 [times |-> Num(1), len |-> Num(0)]>>


(***************************************************************************)
(* What a boundary depends on (chunker_state.rs, aes_gear.rs).             *)
(***************************************************************************)
\* The chunks of rest when every chunk is cut by a fresh ChunkerState, its
\* register zero, read in one fill.
RECURSIVE FreshChunks(_, _)
FreshAfter(cfg, rest, u) ==
  IF u.res = <<>> THEN <<rest>>
  ELSE <<SubSeq(rest, 1, u.res[1])>>
         \o FreshChunks(cfg, SubSeq(rest, u.res[1] + 1, Len(rest)))

FreshChunks(cfg, rest) ==
  IF rest = <<>> THEN <<>>
  ELSE FreshAfter(cfg, rest, update(cfg, 0, <<0, 0, 0, 0>>, rest))

\* The chunks of rest when the first min_size - 64 bytes of a chunk are
\* hashed like the 63 after them instead of skipped, the register carried
\* over.
RECURSIVE HashAllChunks(_, _, _)
HashAllAfter(cfg, rest, u) ==
  IF u.res = <<>> THEN <<rest>>
  ELSE <<SubSeq(rest, 1, u.res[1])>>
         \o HashAllChunks(cfg, u.gear, SubSeq(rest, u.res[1] + 1, Len(rest)))

HashAllChunks(cfg, gear, rest) ==
  IF rest = <<>> THEN <<>>
  ELSE HashAllAfter(cfg, rest, UpdateLoops(cfg, 0, gear, rest, 0))

\* The iteration has just ended without an error.
JustEnded == ck_ended /\ ~Errored /\ ck_after = 0

\* C28: where a boundary falls depends on the bytes of the current chunk
\* only: neither the register carried over from the previous chunk nor the
\* skipped first min_size - 64 bytes of the chunk influence it, so cutting
\* every chunk with a fresh ChunkerState, or hashing the skipped bytes too,
\* gives the chunks the continuing ChunkerState gives.
C28_BoundariesOfCurrentChunkOnly ==
  JustEnded =>
    /\ ChunkSeq(ck_items) = FreshChunks(ck_config, ck_source)
    /\ ChunkSeq(ck_items)
         = HashAllChunks(ck_config, <<0, 0, 0, 0>>, ck_source)

\* C28 witness: a configuration that skips 16 bytes has cut three chunks at
\* least, the first two where the hash chose, so the third was cut with a
\* register carried over twice.
C28_Witness ==
  /\ JustEnded
  /\ ck_config.min_size = 80
  /\ Len(ChunkSeq(ck_items)) >= 3
  /\ Len(ChunkSeq(ck_items)[1]) < ck_config.max_size
  /\ Len(ChunkSeq(ck_items)[2]) < ck_config.max_size
  /\ ck_gear # <<0, 0, 0, 0>>


(***************************************************************************)
(* The configurations ChunkerConfig::new accepts, and the subtractions of  *)
(* ChunkerState::update on usize (chunker_state.rs).  A build with         *)
(* debug_assertions checks the arithmetic and panics on underflow; the     *)
(* other wraps.                                                            *)
(***************************************************************************)
ConfigMinSizes == {0, 10, 63, 64, 100}

ConfigAvgSizes == {0, 48, 64, 128}

ConfigMaxSizes == {100, 192}

ConfigNormalizationBits == {0, 1, 6}

\* Lengths of the buffer of the first update.
FirstBufLens == {0, 10, 70}

\* The least min_size whose subtraction min_size - 64 does not underflow.
SKIP_WINDOW == 64

InitConfig ==
  /\ InitStream
  /\ PadIdle
  /\ ChunkIdle
  /\ PackIdle
  /\ AeadIdle
  /\ EncryptorIdle
  /\ IndexIdle
  /\ PackRunsIdle
  /\ CasIdle
  /\ cf_pc = "args"
  /\ cf_args \in ConfigMinSizes \X ConfigAvgSizes \X ConfigMaxSizes
                   \X ConfigNormalizationBits
  /\ cf_config = NoConfig
  /\ cf_first = NoUpdate

\* ChunkerConfig::new: it returns the configuration, or an assertion (or
\* ilog2 of zero) panics.
ConfigNew ==
  /\ cf_pc = "args"
  /\ IF ConfigAccepted(cf_args[1], cf_args[2], cf_args[3], cf_args[4])
       THEN /\ cf_pc' = "accepted"
            /\ cf_config' = ChunkerConfigNew(cf_args[1], cf_args[2],
                                             cf_args[3], cf_args[4])
       ELSE /\ cf_pc' = "rejected"
            /\ UNCHANGED cf_config
  /\ UNCHANGED <<cf_args, cf_first>>
  /\ UNCHANGED otherThanConfig

\* ChunkerState::update of a fresh ChunkerState on usize: with
\* min_size < 64 the subtraction of line 66 underflows, which panics where
\* the arithmetic is checked and otherwise wraps to a skip longer than any
\* buffer, so the whole buffer is consumed and None returned.
updateFresh(cfg, buf, checked) ==
  IF cfg.min_size < SKIP_WINDOW
    THEN [underflow |-> TRUE,
          res |-> IF checked THEN <<"panic">> ELSE <<>>,
          size |-> IF checked THEN 0 ELSE Len(buf)]
    ELSE LET u == update(cfg, 0, <<0, 0, 0, 0>>, buf)
         IN [underflow |-> FALSE, res |-> u.res, size |-> u.size]

\* ChunkerState::new(&config), then its first update(buf)
ConfigUpdate(buf) ==
  /\ cf_pc = "accepted"
  /\ cf_first' = updateFresh(cf_config, buf, debug_assertions)
  /\ cf_pc' = IF cf_first'.res = <<"panic">> THEN "panicked" ELSE "updated"
  /\ UNCHANGED <<cf_args, cf_config>>
  /\ UNCHANGED otherThanConfig

NextConfig ==
  \/ ConfigNew
  \/ \E len \in FirstBufLens : ConfigUpdate(PatternInput(5, len))

SpecConfig == InitConfig /\ [][NextConfig]_vars

ConfigReturned == cf_pc \in {"accepted", "updated", "panicked"}

\* C27 as stated: every configuration ChunkerConfig::new accepts has
\* avg_size a power of two, log2(avg_size) > normalization_bits and
\* min_size >= 64, so min_size - 64 and min_size - 1 in update do not
\* underflow.
C27_AcceptedConfigIsValid ==
  ConfigReturned =>
    /\ \E e \in 0..30 : cf_config.avg_size = 2 ^ e
    /\ ilog2(cf_config.avg_size) > cf_args[4]
    /\ cf_config.min_size >= 64
    /\ ~cf_first.underflow
    /\ cf_pc # "panicked"

\* What ChunkerConfig::new does check: avg_size is a power of two and
\* log2(avg_size) > normalization_bits; and with min_size >= 64 update does
\* not underflow.
C27_AcceptedConfigHasValidAverage ==
  ConfigReturned =>
    /\ \E e \in 0..30 : cf_config.avg_size = 2 ^ e
    /\ ilog2(cf_config.avg_size) > cf_args[4]
    /\ cf_config.min_size >= 64 => ~cf_first.underflow /\ cf_pc # "panicked"

\* The configuration (10, 64, 100, 0) was accepted and the first update on
\* it panicked on min_size - 64.
C27_Underflowed ==
  /\ cf_pc = "panicked"
  /\ cf_args = <<10, 64, 100, 0>>
  /\ cf_first.underflow

(***************************************************************************)
(* DirectoryCas (cas/directory.rs): one file per blob, named by the hash   *)
(* of its bytes, written by threads that share the directory (main.rs).    *)
(***************************************************************************)
\* The threads of the parallel walk.
Threads == {1, 2}
\* The blobs they store and the calls they make in one run.
Blobs == {<<1, 2>>, <<3, 4>>}
MaxCasCalls == 4

\* H::digest(&bytes)
digest(bytes) == HasherUpdate(0, bytes)

CasHashes == {digest(b) : b \in Blobs}

\* A name without a file, and a thread that is in no call.
NoFile == [exists |-> FALSE, data |-> <<>>]
NoStore == [pc |-> "idle", bytes |-> <<>>, hash |-> 0, off |-> 0]

InitCas ==
  /\ InitStream
  /\ PadIdle
  /\ ChunkIdle
  /\ PackIdle
  /\ AeadIdle
  /\ EncryptorIdle
  /\ IndexIdle
  /\ PackRunsIdle
  /\ ConfigIdle
  /\ cas_files = [h \in CasHashes |-> NoFile]
  /\ cas_threads = [t \in Threads |-> NoStore]
  /\ cas_returned = {}
  /\ cas_got = <<>>
  /\ cas_skipped = <<>>
  /\ cas_calls = 0

\* get(hash): std::fs::read of the file of that name, None when there is
\* none. known says that a store had returned this hash before the call.
Get(t, hash) ==
  /\ cas_threads[t].pc = "idle"
  /\ cas_calls < MaxCasCalls
  /\ cas_calls' = cas_calls + 1
  /\ cas_got' = <<[hash |-> hash,
                   known |-> {r \in cas_returned : r.hash = hash},
                   res |-> IF cas_files[hash].exists
                           THEN <<cas_files[hash].data>> ELSE <<>>]>>
  /\ UNCHANGED <<cas_files, cas_threads, cas_returned, cas_skipped>>
  /\ UNCHANGED otherThanCas

\* store(bytes) is entered: the hash and the path are computed.
StoreEnter(t, bytes) ==
  /\ cas_threads[t].pc = "idle"
  /\ cas_calls < MaxCasCalls
  /\ cas_calls' = cas_calls + 1
  /\ cas_threads' = [cas_threads EXCEPT ![t] =
        [pc |-> "exists", bytes |-> bytes, hash |-> digest(bytes), off |-> 0]]
  /\ UNCHANGED <<cas_files, cas_returned, cas_got, cas_skipped>>
  /\ UNCHANGED otherThanCas

\* path.exists(): with a file of that name in place the write is skipped
\* and the hash returned; without one the thread goes on to write.
StoreExists(t) ==
  /\ cas_threads[t].pc = "exists"
  /\ LET th == cas_threads[t] IN
     IF cas_files[th.hash].exists
     THEN /\ cas_threads' = [cas_threads EXCEPT ![t] = NoStore]
          /\ cas_returned' = cas_returned
                               \cup {[hash |-> th.hash, bytes |-> th.bytes]}
          /\ cas_skipped' = <<[hash |-> th.hash, bytes |-> th.bytes,
                               found |-> cas_files[th.hash].data]>>
     ELSE /\ cas_threads' = [cas_threads EXCEPT ![t].pc = "create"]
          /\ UNCHANGED <<cas_returned, cas_skipped>>
  /\ UNCHANGED <<cas_files, cas_got, cas_calls>>
  /\ UNCHANGED otherThanCas

\* std::fs::write opens the file with create and truncate: there is a file
\* of that name from here on, empty, whatever was there.
StoreCreate(t) ==
  /\ cas_threads[t].pc = "create"
  /\ cas_files' = [cas_files EXCEPT ![cas_threads[t].hash] =
                     [exists |-> TRUE, data |-> <<>>]]
  /\ cas_threads' = [cas_threads EXCEPT ![t].pc = "write", ![t].off = 0]
  /\ UNCHANGED <<cas_returned, cas_got, cas_skipped, cas_calls>>
  /\ UNCHANGED otherThanCas

\* The bytes of a file after bytes are written at offset off through a
\* descriptor: what lies between the end of the file and off reads as zeros.
WriteAt(data, off, bytes) ==
  [i \in 1..(IF off + Len(bytes) > Len(data) THEN off + Len(bytes)
             ELSE Len(data)) |->
     IF i > off /\ i <= off + Len(bytes) THEN bytes[i - off]
     ELSE IF i <= Len(data) THEN data[i]
     ELSE 0]

\* One write of std::fs::write's write_all: the next n bytes go to the
\* file at this thread's offset.
StoreWrite(t, n) ==
  /\ cas_threads[t].pc = "write"
  /\ LET th == cas_threads[t] IN
     /\ th.off + n <= Len(th.bytes)
     /\ cas_files' = [cas_files EXCEPT ![th.hash].data =
                        WriteAt(@, th.off, SubSeq(th.bytes, th.off + 1,
                                                  th.off + n))]
     /\ cas_threads' = [cas_threads EXCEPT ![t].off = th.off + n]
  /\ UNCHANGED <<cas_returned, cas_got, cas_skipped, cas_calls>>
  /\ UNCHANGED otherThanCas

\* A write fails: store returns the error and leaves the file as it is.
StoreWriteFails(t) ==
  /\ cas_threads[t].pc = "write"
  /\ cas_threads[t].off < Len(cas_threads[t].bytes)
  /\ cas_threads' = [cas_threads EXCEPT ![t] = NoStore]
  /\ UNCHANGED <<cas_files, cas_returned, cas_got, cas_skipped, cas_calls>>
  /\ UNCHANGED otherThanCas

\* All bytes are written: store returns the hash.
StoreReturn(t) ==
  /\ cas_threads[t].pc = "write"
  /\ cas_threads[t].off = Len(cas_threads[t].bytes)
  /\ cas_returned' = cas_returned \cup {[hash |-> cas_threads[t].hash,
                                         bytes |-> cas_threads[t].bytes]}
  /\ cas_threads' = [cas_threads EXCEPT ![t] = NoStore]
  /\ UNCHANGED <<cas_files, cas_got, cas_skipped, cas_calls>>
  /\ UNCHANGED otherThanCas

NextCas ==
  \/ \E t \in Threads, h \in CasHashes : Get(t, h)
  \/ \E t \in Threads, b \in Blobs : StoreEnter(t, b)
  \/ \E t \in Threads : StoreExists(t)
  \/ \E t \in Threads : StoreCreate(t)
  \/ \E t \in Threads, n \in 1..2 : StoreWrite(t, n)
  \/ \E t \in Threads : StoreWriteFails(t)
  \/ \E t \in Threads : StoreReturn(t)

SpecCas == InitCas /\ [][NextCas]_vars

\* C31 as stated: once a store(b) has returned hash h, every get(h)
\* returns exactly b, not None and not a part of b, also while another
\* store of the same bytes is in progress; and a store skips the write only
\* when a whole copy is in place.
C31_GetAfterStoreReturnsTheBytes ==
  /\ \A i \in 1..Len(cas_got) :
        \A r \in cas_got[i].known : cas_got[i].res = <<r.bytes>>
  /\ \A i \in 1..Len(cas_skipped) :
        cas_skipped[i].found = cas_skipped[i].bytes

\* What the code does keep: a store that returns, returns the hash of its
\* bytes, the same for equal bytes, and only once a file of that name
\* exists; a get never finds None for a hash a store has returned.
C31_ReturnedHashNamesAFile ==
  /\ \A r \in cas_returned :
        r.hash = digest(r.bytes) /\ cas_files[r.hash].exists
  /\ \A i \in 1..Len(cas_got) :
        cas_got[i].known # {} => cas_got[i].res # <<>>

\* A store skipped the write on finding the file another store had created
\* and not yet filled, returned the hash, and a get of that hash found a
\* part of the bytes.
C31_GetFoundPartialFile ==
  /\ cas_got # <<>>
  /\ cas_got[1].known # {}
  /\ cas_got[1].res # <<>>
  /\ \E r \in cas_got[1].known :
        Len(cas_got[1].res[1]) < Len(r.bytes)
  /\ cas_skipped # <<>>
  /\ cas_skipped[1].found # cas_skipped[1].bytes

====
